---- MODULE Spec2Model ----
(***************************************************************************)
(* GLITCH_RUNNER: the App component (frame loop, level lifecycle, Inspector *)
(* updates) as a state machine.                                            *)
(*                                                                         *)
(* Numbers.  The program computes in IEEE doubles; the model computes in   *)
(* fixed point, rounding toward zero:                                      *)
(*   positions, sizes      1/100 px            (PX units per pixel)        *)
(*   velocities            1/100 px per second                             *)
(*   tick timestamps       ms                                              *)
(*   timeScale, gravity    tenths              (Inspector step 0.1)        *)
(*   gravityScale          halves              (Inspector step 0.5)        *)
(*   friction              hundredths                                      *)
(*   deltaTime             1/10000 s  (= ms * timeScale-in-tenths)         *)
(*                                                                         *)
(* Objects.  A JavaScript spread copies references: the pos and velocity   *)
(* objects of a world entity made by setupLevel are the objects of its     *)
(* blueprint template, and stay so through every {...ent} copy.  The       *)
(* fields sharesPos / sharesVel record that; an in-place write             *)
(* (ent.pos.x = ..., ent.velocity.y += ...) through a shared object is     *)
(* also a write to the template.                                           *)
(***************************************************************************)
EXTENDS Integers, Sequences, FiniteSets, TLC

VARIABLES
    gameState,        \* useState<GameState>
    currentLevelId,   \* useState(1)
    isPaused,         \* useState(false)
    isEditorTesting,  \* useState(false)
    editorLevel,      \* useState<LevelData>: the editor's blueprint
    LEVELS,           \* the level repository (objects reachable from LEVELS)
    entitiesRef,      \* entitiesRef.current (== the entities state)
    physicsRef,       \* physicsRef.current (== the physics state)
    keysRef,          \* held control signals
    targetXRef,       \* <<>> for null, <<x>> for a click target
    lastTimeRef,      \* timestamp of the last processed frame
    requestRef,       \* TRUE iff the callback requestRef.current names is pending
    pendingFrames,    \* number of frame callbacks pending with the scheduler
    timers,           \* pending level-complete timeouts (captured currentLevelId)
    clock,            \* the time (ms) of the last scheduler tick or timeout
    lastFrame,        \* observation: what the last gameLoop invocation did
    worldSrc,         \* the blueprint whose objects the world shares: 0 editor, k LEVELS[k]
    shots,            \* observation: per turret id, the time of its last committed shot
    budget            \* remaining ticks / user events of the bounded run

vars == <<gameState, currentLevelId, isPaused, isEditorTesting, editorLevel, LEVELS,
          entitiesRef, physicsRef, keysRef, targetXRef, lastTimeRef, requestRef,
          pendingFrames, timers, clock, worldSrc, lastFrame, shots, budget>>

----------------------------------------------------------------------------
(* Program constants *)

\* fixed-point units per pixel
PX == 10 * 10
CANVAS_WIDTH == 800
CANVAS_HEIGHT == 600
PLAYER_SIZE_X == 32
PLAYER_SIZE_Y == 32
MAX_DELTA_MS == 50
GRAVITY_UNIT == 2000
MOVE_ACCEL == 300
MAX_WALK_SPEED == 200
JUMP_SPEED == 600
TARGET_EPS == 5
OFF_CANVAS == 100
FALL_MARGIN == 200
TURRET_RANGE == 500
SPAWN_OFFSET == 35
PROJECTILE_SIZE == 10
PROJECTILE_HALF == 5
DEFAULT_PATROL_SPEED == 100
DEFAULT_PROJECTILE_SPEED == 300

----------------------------------------------------------------------------
(* Arithmetic helpers *)

Abs(a) == IF a < 0 THEN -a ELSE a

Sign(a) == IF a > 0 THEN 1 ELSE IF a < 0 THEN -1 ELSE 0

Min(a, b) == IF a < b THEN a ELSE b

Max(a, b) == IF a > b THEN a ELSE b

\* division rounding toward zero (the fixed-point stand-in for a double quotient)
TDiv(a, b) == IF a >= 0 THEN a \div b ELSE -((-a) \div b)

RECURSIVE SqrtSearch(_, _, _)
SqrtSearch(n, lo, hi) ==
    IF lo >= hi THEN lo
    ELSE LET mid == (lo + hi + 1) \div 2
         IN  IF mid * mid <= n THEN SqrtSearch(n, mid, hi)
             ELSE SqrtSearch(n, lo, mid - 1)

\* floor of the square root, n < 2^30
ISqrt(n) == SqrtSearch(n, 0, 32767)

Vec(x, y) == [x |-> x, y |-> y]

Some(v) == <<v>>

None == <<>>

----------------------------------------------------------------------------
(* Entities (types.ts GameEntity) *)

PlayerId == <<"player_1">>

\* variant: a projectile id without the timestamp of line 455
ProjectileId_NoTime(entId, now) == <<"proj", entId, 0>>

\* `proj_${ent.id}_${now}` (line 455)
ProjectileId(entId, now) == <<"proj", entId, now>>

\* setupLevel: the Player entity
PlayerEntity(startPos) ==
    [id |-> PlayerId, type |-> "PLAYER",
     pos |-> Vec(startPos.x, startPos.y),
     size |-> Vec(PLAYER_SIZE_X * PX, PLAYER_SIZE_Y * PX),
     velocity |-> Vec(0, 0),
     isStatic |-> FALSE, isSolid |-> TRUE, isVisible |-> TRUE,
     isDeadly |-> FALSE, isAlwaysVisible |-> FALSE,
     gravityScale |-> Some(2),
     behavior |-> "DEFAULT",
     patrolStart |-> None, patrolEnd |-> None, patrolSpeed |-> 0,
     fireRate |-> 0, projectileSpeed |-> 0, lastFireTime |-> 0,
     sharesPos |-> FALSE, sharesVel |-> FALSE]

\* gameLoop: the projectile a turret pushes onto newProjectiles
ProjectileEntity(entId, now, spawnPos, fireVelocity) ==
    [id |-> ProjectileId(entId, now), type |-> "PROJECTILE",
     pos |-> spawnPos,
     size |-> Vec(PROJECTILE_SIZE * PX, PROJECTILE_SIZE * PX),
     velocity |-> fireVelocity,
     isStatic |-> FALSE, isSolid |-> FALSE, isVisible |-> TRUE,
     isDeadly |-> TRUE, isAlwaysVisible |-> FALSE,
     gravityScale |-> Some(0),
     behavior |-> "DEFAULT",
     patrolStart |-> None, patrolEnd |-> None, patrolSpeed |-> 0,
     fireRate |-> 0, projectileSpeed |-> 0, lastFireTime |-> 0,
     sharesPos |-> FALSE, sharesVel |-> FALSE]

\* Init Playing State effect, editor build mode: the ghost player
GhostPlayer(startPos) ==
    [PlayerEntity(startPos) EXCEPT !.id = <<"ghost_player">>, !.isStatic = TRUE,
                                   !.isSolid = FALSE, !.gravityScale = Some(0)]

\* a blueprint template with the optional fields absent
Template(id, type, x, y, w, h) ==
    [id |-> <<id>>, type |-> type,
     pos |-> Vec(x * PX, y * PX), size |-> Vec(w * PX, h * PX),
     velocity |-> Vec(0, 0),
     isStatic |-> TRUE, isSolid |-> TRUE, isVisible |-> TRUE,
     isDeadly |-> FALSE, isAlwaysVisible |-> FALSE,
     gravityScale |-> None,
     behavior |-> "DEFAULT",
     patrolStart |-> None, patrolEnd |-> None, patrolSpeed |-> 0,
     fireRate |-> 0, projectileSpeed |-> 0, lastFireTime |-> 0,
     sharesPos |-> FALSE, sharesVel |-> FALSE]

\* variant: an overlap test with closed intervals, which takes touching
\* rectangles for colliding
checkCollision_Closed(a, b) ==
    /\ a.pos.x <= b.pos.x + b.size.x
    /\ a.pos.x + a.size.x >= b.pos.x
    /\ a.pos.y <= b.pos.y + b.size.y
    /\ a.pos.y + a.size.y >= b.pos.y

checkCollision(a, b) ==
    /\ a.pos.x < b.pos.x + b.size.x
    /\ a.pos.x + a.size.x > b.pos.x
    /\ a.pos.y < b.pos.y + b.size.y
    /\ a.pos.y + a.size.y > b.pos.y

\* setupLevel: level.entities.map(e => ({...e, velocity: e.velocity || ..., ...}))
\* the spread keeps e.pos and e.velocity, the template's own objects
SetupEntity(e) ==
    [e EXCEPT !.gravityScale = IF e.gravityScale # None THEN e.gravityScale ELSE Some(2),
              !.sharesPos = TRUE, !.sharesVel = TRUE]

\* setupLevel: the entity list it stores (blueprint entities, then the player)
setupLevel(level) ==
    [k \in 1..Len(level.entities) |-> SetupEntity(level.entities[k])]
        \o <<PlayerEntity(level.startPos)>>

----------------------------------------------------------------------------
(* gameLoop, per entity: AI logic (lines 387-469) *)

PatrolActive(ent) ==
    /\ ent.behavior = "PATROL"
    /\ ent.patrolStart # None
    /\ ent.patrolEnd # None
    /\ ~ent.isStatic

\* path vector in 1/10 px
PatrolPath(ent) ==
    Vec(TDiv(ent.patrolEnd[1].x - ent.patrolStart[1].x, 10),
        TDiv(ent.patrolEnd[1].y - ent.patrolStart[1].y, 10))

\* (path / pathLen) * speed * dir, in 1/100 px per second
PatrolVelocity(path, pathLen, speed, dir) ==
    Vec(dir * TDiv(path.x * speed * PX, pathLen),
        dir * TDiv(path.y * speed * PX, pathLen))

\* variant: the patrol logic without the two turns of lines 408-419
PatrolAssign_NoTurn(ent) ==
    IF ~PatrolActive(ent) THEN None
    ELSE
      LET speed == IF ent.patrolSpeed # 0 THEN ent.patrolSpeed ELSE DEFAULT_PATROL_SPEED
          path == PatrolPath(ent)
          pathLen == ISqrt(path.x * path.x + path.y * path.y)
      IN  IF pathLen > 0 /\ ent.velocity.x = 0 /\ ent.velocity.y = 0
            THEN Some(PatrolVelocity(path, pathLen, speed, 1))
            ELSE None

\* the velocity the patrol logic assigns, None when it assigns nothing
PatrolAssign(ent) ==
    IF ~PatrolActive(ent) THEN None
    ELSE
      LET speed == IF ent.patrolSpeed # 0 THEN ent.patrolSpeed ELSE DEFAULT_PATROL_SPEED
          path == PatrolPath(ent)
          len2 == path.x * path.x + path.y * path.y
          pathLen == ISqrt(len2)
          toPos == Vec(ent.pos.x - ent.patrolStart[1].x, ent.pos.y - ent.patrolStart[1].y)
          dot == toPos.x * path.x + toPos.y * path.y
          \* proj = dot / pathLen^2, dot being 10 times finer than len2
          projGE1 == dot >= len2 * 10
          projLE0 == dot <= 0
          velocityDot == ent.velocity.x * path.x + ent.velocity.y * path.y
          movingTowardsEnd == velocityDot >= 0
      IN  IF pathLen <= 0 THEN None
          ELSE IF ent.velocity.x = 0 /\ ent.velocity.y = 0
                 THEN Some(PatrolVelocity(path, pathLen, speed, 1))
          ELSE IF movingTowardsEnd /\ projGE1
                 THEN Some(PatrolVelocity(path, pathLen, speed, -1))
          ELSE IF ~movingTowardsEnd /\ projLE0
                 THEN Some(PatrolVelocity(path, pathLen, speed, 1))
          ELSE None

Center(e) == Vec(e.pos.x + TDiv(e.size.x, 2), e.pos.y + TDiv(e.size.y, 2))

\* sqrt(dx*dx + dy*dy) < r pixels, exactly, for dx, dy in 1/100 px
\* (the squares are split in a pixel part and a rest to stay within 32 bits)
DistLess(dx, dy, r) ==
    LET a1 == Abs(dx) \div PX
        a0 == Abs(dx) % PX
        b1 == Abs(dy) \div PX
        b0 == Abs(dy) % PX
        whole == a1 * a1 + b1 * b1
        rest == 2 * PX * (a1 * a0 + b1 * b0) + a0 * a0 + b0 * b0
    IN  whole + rest \div (PX * PX) < r * r

\* currentEntities.find(e => e.type === type): its index, 0 when absent
RECURSIVE FindType(_, _, _)
FindType(cur, type, k) ==
    IF k > Len(cur) THEN 0
    ELSE IF cur[k].type = type THEN k
    ELSE FindType(cur, type, k + 1)

\* variant: shouldFire without the range test of line 438
TurretShouldFire_AnyRange(ent, cur) ==
    LET p == FindType(cur, "PLAYER", 1)
    IN  p # 0 /\ cur[p].isVisible

\* shouldFire: a visible player closer than 500
TurretShouldFire(ent, cur) ==
    LET p == FindType(cur, "PLAYER", 1)
    IN  /\ p # 0
        /\ cur[p].isVisible
        /\ DistLess(Center(cur[p]).x - Center(ent).x,
                    Center(cur[p]).y - Center(ent).y, TURRET_RANGE)

\* variant: the rate gate of line 451 always open
TurretGate_Open(ent, now) == TRUE

\* the rate gate of line 451
TurretGate(ent, now) ==
    ent.lastFireTime = 0 \/ now - ent.lastFireTime > ent.fireRate

TurretFires(ent, cur, now) ==
    /\ ent.behavior = "TURRET"
    /\ ent.fireRate # 0
    /\ TurretShouldFire(ent, cur)
    /\ TurretGate(ent, now)

\* the projectile of a firing turret: 35 px from the turret center along the aim
\* direction (cos, sin = d / dist, taken in 1/10 px), speed projSpeed
TurretProjectile(ent, cur, now) ==
    LET player == cur[FindType(cur, "PLAYER", 1)]
        tc == Center(ent)
        dx == TDiv(Center(player).x - tc.x, 10)
        dy == TDiv(Center(player).y - tc.y, 10)
        dist == ISqrt(dx * dx + dy * dy)
        cx == IF dist = 0 THEN 1 ELSE dx
        cy == IF dist = 0 THEN 0 ELSE dy
        cd == IF dist = 0 THEN 1 ELSE dist
        projSpeed == IF ent.projectileSpeed # 0 THEN ent.projectileSpeed
                     ELSE DEFAULT_PROJECTILE_SPEED
    IN  ProjectileEntity(ent.id, now,
            Vec(tc.x + TDiv(cx * SPAWN_OFFSET * PX, cd) - PROJECTILE_HALF * PX,
                tc.y + TDiv(cy * SPAWN_OFFSET * PX, cd) - PROJECTILE_HALF * PX),
            Vec(TDiv(cx * projSpeed * PX, cd), TDiv(cy * projSpeed * PX, cd)))

----------------------------------------------------------------------------
(* gameLoop, per entity: forces, control, collision (lines 471-627) *)

\* the filter of both collision loops (lines 532-534)
Participates(ent, other) ==
    /\ ent.id # other.id
    /\ (other.isSolid \/ other.isDeadly)
    /\ other.isVisible

\* variant: the death tests without the Player's (lines 537-541, 573-577)
DeathBy_ProjectileOnly(ent, other) ==
    IF ent.type = "PROJECTILE" /\ other.type = "PLAYER" THEN "projectile" ELSE ""

\* the death tests of both collision loops (lines 537-546); "" when neither
DeathBy(ent, other) ==
    IF ent.type = "PLAYER" /\ other.isDeadly THEN "deadly"
    ELSE IF ent.type = "PROJECTILE" /\ other.type = "PLAYER" THEN "projectile"
    ELSE ""

\* X loop: acc = [vx, nextX, isVisible, clear, dead]
RECURSIVE XSweep(_, _, _, _, _)
XSweep(ent, rect, cur, k, acc) ==
    IF k > Len(cur) \/ acc.dead # "" THEN acc
    ELSE
      LET other == cur[k]
      IN  IF ~(Participates(ent, other) /\ checkCollision(rect, other))
            THEN XSweep(ent, rect, cur, k + 1, acc)
          ELSE IF DeathBy(ent, other) # ""
            THEN [acc EXCEPT !.dead = DeathBy(ent, other)]
          ELSE
            LET a1 == IF ent.type = "PROJECTILE" /\ other.type = "WALL"
                        THEN [acc EXCEPT !.isVisible = FALSE] ELSE acc
                a2 == IF other.isSolid
                        THEN [a1 EXCEPT !.vx = IF ent.behavior = "PATROL" THEN -a1.vx ELSE 0,
                                        !.nextX = ent.pos.x,
                                        !.clear = a1.clear \/ ent.type = "PLAYER"]
                        ELSE a1
            IN  XSweep(ent, rect, cur, k + 1, a2)

\* Y loop: acc = [vy, nextY, grounded, isVisible, dead]
RECURSIVE YSweep(_, _, _, _, _)
YSweep(ent, rect, cur, k, acc) ==
    IF k > Len(cur) \/ acc.dead # "" THEN acc
    ELSE
      LET other == cur[k]
      IN  IF ~(Participates(ent, other) /\ checkCollision(rect, other))
            THEN YSweep(ent, rect, cur, k + 1, acc)
          ELSE IF DeathBy(ent, other) # ""
            THEN [acc EXCEPT !.dead = DeathBy(ent, other)]
          ELSE
            LET a1 == IF ent.type = "PROJECTILE" /\ other.type = "WALL"
                        THEN [acc EXCEPT !.isVisible = FALSE] ELSE acc
                a2 == IF other.isSolid /\ a1.vy > 0
                        THEN [a1 EXCEPT !.nextY = other.pos.y - ent.size.y,
                                        !.grounded = TRUE, !.vy = 0]
                      ELSE IF other.isSolid /\ a1.vy < 0
                        THEN [a1 EXCEPT !.nextY = other.pos.y + other.size.y, !.vy = 0]
                      ELSE a1
            IN  YSweep(ent, rect, cur, k + 1, a2)

\* variant: line 478 left out
ApplyGravity_None(vy, ent, phys, deltaTime) == vy

\* ent.velocity.y += phys.gravity * 2000 * gravityMultiplier * deltaTime
ApplyGravity(vy, ent, phys, deltaTime) ==
    LET gravityMultiplier == IF ent.gravityScale # None THEN ent.gravityScale[1] ELSE 2
    IN  vy + TDiv(phys.gravity * gravityMultiplier * deltaTime * (GRAVITY_UNIT \div 20), PX)

\* ent.velocity.x *= phys.friction
ApplyFriction(vx, phys) == TDiv(vx * phys.friction, 100)

\* v * deltaTime, a displacement in 1/100 px
Displace(v, deltaTime) == TDiv(v * deltaTime, 10000)

\* variant: a control law in which manual input leaves the click target alone
PlayerControl_KeepTarget(ent, vx0, phys, keys, target, deltaTime) ==
    LET accel == TDiv(MOVE_ACCEL * PX * deltaTime, 10000)
        v1 == IF "Right" \in keys THEN vx0 + accel ELSE vx0
        v2 == IF "Left" \in keys THEN v1 - accel ELSE v1
        diff == IF target # None
                  THEN target[1] - (ent.pos.x + TDiv(ent.size.x, 2)) ELSE 0
    IN  IF "Right" \in keys \/ "Left" \in keys
          THEN [vx |-> ApplyFriction(v2, phys), target |-> target]
        ELSE IF target # None
          THEN IF Abs(diff) < TARGET_EPS * PX
                 THEN [vx |-> 0, target |-> None]
                 ELSE [vx |-> Sign(diff) * MAX_WALK_SPEED * PX, target |-> target]
        ELSE [vx |-> ApplyFriction(vx0, phys), target |-> target]

\* Player Control (lines 481-520): [vx, target]
PlayerControl(ent, vx0, phys, keys, target, deltaTime) ==
    LET accel == TDiv(MOVE_ACCEL * PX * deltaTime, 10000)
        v1 == IF "Right" \in keys THEN vx0 + accel ELSE vx0
        v2 == IF "Left" \in keys THEN v1 - accel ELSE v1
        manualInput == "Right" \in keys \/ "Left" \in keys
        diff == IF target # None
                  THEN target[1] - (ent.pos.x + TDiv(ent.size.x, 2)) ELSE 0
    IN  IF manualInput THEN [vx |-> ApplyFriction(v2, phys), target |-> None]
        ELSE IF target # None
          THEN IF Abs(diff) < TARGET_EPS * PX
                 THEN [vx |-> 0, target |-> None]
                 ELSE [vx |-> Sign(diff) * MAX_WALK_SPEED * PX, target |-> target]
        ELSE [vx |-> ApplyFriction(vx0, phys), target |-> target]

\* variant: the X step without the clamps of lines 527-528
XStep_NoClamp(ent, vx, cur, deltaTime) ==
    LET raw == ent.pos.x + Displace(vx, deltaTime)
        off == raw < -(OFF_CANVAS * PX) \/ raw > (CANVAS_WIDTH + OFF_CANVAS) * PX
        vis == IF off /\ ent.type = "PROJECTILE" THEN FALSE ELSE ent.isVisible
        rect == [ent EXCEPT !.pos = Vec(raw, ent.pos.y)]
    IN  XSweep(ent, rect, cur, 1,
               [vx |-> vx, nextX |-> raw, isVisible |-> vis, clear |-> FALSE, dead |-> ""])

\* the X step of a non-static entity (lines 523-558):
\* [vx, nextX, isVisible, clear, dead]
XStep(ent, vx, cur, deltaTime) ==
    LET raw == ent.pos.x + Displace(vx, deltaTime)
        off == raw < -(OFF_CANVAS * PX) \/ raw > (CANVAS_WIDTH + OFF_CANVAS) * PX
        vis == IF off /\ ent.type = "PROJECTILE" THEN FALSE ELSE ent.isVisible
        lo == raw < 0
        x1 == IF lo THEN 0 ELSE raw
        hi == x1 > CANVAS_WIDTH * PX - ent.size.x
        x2 == IF hi THEN CANVAS_WIDTH * PX - ent.size.x ELSE x1
        v2 == IF lo \/ hi THEN 0 ELSE vx
        rect == [ent EXCEPT !.pos = Vec(x2, ent.pos.y)]
    IN  XSweep(ent, rect, cur, 1,
               [vx |-> v2, nextX |-> x2, isVisible |-> vis, clear |-> FALSE, dead |-> ""])

\* the Y step (lines 560-595), ent.pos.x already written:
\* [vy, nextY, grounded, isVisible, dead]
YStep(ent, cur, deltaTime) ==
    LET raw == ent.pos.y + Displace(ent.velocity.y, deltaTime)
        rect == [ent EXCEPT !.pos = Vec(ent.pos.x, raw)]
    IN  YSweep(ent, rect, cur, 1,
               [vy |-> ent.velocity.y, nextY |-> raw, grounded |-> FALSE,
                isVisible |-> ent.isVisible, dead |-> ""])

\* The iteration of the entity loop on one entity is a chain of steps over
\*   s = [ent          the local copy { ...currentEntities[i] }
\*        velReplaced  the AI logic assigned a new velocity object
\*        spawn        what the iteration pushed onto newProjectiles
\*        target       targetXRef.current
\*        outcome      "none", "reset" (resetLevel) or "complete" (exit reached)
\*        cause        of a reset: "deadly", "projectile" or "fall"
\*        done         the iteration ended (continue or return)
\*        grounded]
\* in the context c = [cur, time, deltaTime, phys, keys].
StartEntity(ent, target) ==
    [ent |-> ent, velReplaced |-> FALSE, spawn |-> <<>>, target |-> target,
     outcome |-> "none", cause |-> "", done |-> FALSE, grounded |-> FALSE]

\* lines 387-422
PatrolApply(s, pa) ==
    IF pa = None THEN s
    ELSE [s EXCEPT !.ent.velocity = pa[1], !.ent.sharesVel = FALSE, !.velReplaced = TRUE]

PatrolLogic(s) == PatrolApply(s, PatrolAssign(s.ent))

\* lines 424-469
TurretApply(s, c, fires) ==
    IF fires
      THEN [s EXCEPT !.ent.lastFireTime = c.time,
                     !.spawn = <<TurretProjectile(s.ent, c.cur, c.time)>>]
      ELSE s

TurretLogic(s, c) == TurretApply(s, c, TurretFires(s.ent, c.cur, c.time))

\* variant: an iteration without the early exit of lines 471-474
StaticExit_Never(s) == s

\* lines 471-474
StaticExit(s) == IF s.ent.isStatic THEN [s EXCEPT !.done = TRUE] ELSE s

\* lines 477-478
Forces(s, c) ==
    IF s.done THEN s
    ELSE [s EXCEPT !.ent.velocity.y = ApplyGravity(@, s.ent, c.phys, c.deltaTime)]

\* lines 481-520
ControlApply(s, pc) == [s EXCEPT !.ent.velocity.x = pc.vx, !.target = pc.target]

Control(s, c) ==
    IF s.done \/ s.ent.type # "PLAYER" THEN s
    ELSE ControlApply(s, PlayerControl(s.ent, s.ent.velocity.x, c.phys, c.keys, s.target,
                                       c.deltaTime))

\* lines 523-558
XApply(s, xs) ==
    LET s1 == [s EXCEPT !.ent.velocity.x = xs.vx, !.ent.isVisible = xs.isVisible,
                        !.target = IF xs.clear THEN None ELSE @]
    IN  IF xs.dead # ""
          THEN [s1 EXCEPT !.outcome = "reset", !.cause = xs.dead, !.done = TRUE]
          ELSE [s1 EXCEPT !.ent.pos.x = xs.nextX]

XPhase(s, c) ==
    IF s.done THEN s
    ELSE XApply(s, XStep(s.ent, s.ent.velocity.x, c.cur, c.deltaTime))

\* lines 560-595
YApply(s, ys) ==
    LET s1 == [s EXCEPT !.ent.velocity.y = ys.vy, !.ent.isVisible = ys.isVisible]
    IN  IF ys.dead # ""
          THEN [s1 EXCEPT !.outcome = "reset", !.cause = ys.dead, !.done = TRUE]
          ELSE [s1 EXCEPT !.ent.pos.y = ys.nextY, !.grounded = ys.grounded]

YPhase(s, c) ==
    IF s.done THEN s
    ELSE YApply(s, YStep(s.ent, c.cur, c.deltaTime))

\* variant: the fall test of lines 597-605 without the Player's reset
FallCheck_NoDeath(s) ==
    IF s.done \/ s.ent.pos.y <= (CANVAS_HEIGHT + FALL_MARGIN) * PX THEN s
    ELSE IF s.ent.type = "PROJECTILE" THEN [s EXCEPT !.ent.isVisible = FALSE]
    ELSE s

\* lines 597-605
FallCheck(s) ==
    IF s.done \/ s.ent.pos.y <= (CANVAS_HEIGHT + FALL_MARGIN) * PX THEN s
    ELSE IF s.ent.type = "PLAYER"
      THEN [s EXCEPT !.outcome = "reset", !.cause = "fall", !.done = TRUE]
    ELSE IF s.ent.type = "PROJECTILE" THEN [s EXCEPT !.ent.isVisible = FALSE]
    ELSE s

\* variant: the jump of lines 607-613 without the grounded test
Jump_NoGround(s, c) ==
    IF ~s.done /\ s.ent.type = "PLAYER" /\ "Jump" \in c.keys
      THEN [s EXCEPT !.ent.velocity.y = -(JUMP_SPEED * PX)]
      ELSE s

\* lines 607-613
Jump(s, c) ==
    IF ~s.done /\ s.ent.type = "PLAYER" /\ s.grounded /\ "Jump" \in c.keys
      THEN [s EXCEPT !.ent.velocity.y = -(JUMP_SPEED * PX)]
      ELSE s

\* variant: the exit test of line 617 never succeeds
ExitApply_Never(s, c, exit) == s

\* lines 615-627
ExitApply(s, c, exit) ==
    IF exit # 0 /\ checkCollision(s.ent, c.cur[exit])
      THEN [s EXCEPT !.outcome = "complete", !.done = TRUE]
      ELSE s

ExitCheck(s, c) ==
    IF s.done \/ s.ent.type # "PLAYER" THEN s
    ELSE ExitApply(s, c, FindType(c.cur, "EXIT", 1))

\* the iteration on currentEntities[i] up to the write of ent.pos.x (lines 384-558)
BeforeY(i, c, target) ==
    XPhase(Control(Forces(StaticExit(
        TurretLogic(PatrolLogic(StartEntity(c.cur[i], target)), c)), c), c), c)

\* one iteration of the entity loop (lines 384-629) on currentEntities[i]
ProcessEntityIn(i, c, target) ==
    ExitCheck(Jump(FallCheck(YPhase(XPhase(Control(Forces(StaticExit(
        TurretLogic(PatrolLogic(StartEntity(c.cur[i], target)), c)), c), c), c), c)), c), c)

ProcessEntity(i, cur, time, deltaTime, phys, keys, target) ==
    ProcessEntityIn(i, [cur |-> cur, time |-> time, deltaTime |-> deltaTime,
                        phys |-> phys, keys |-> keys], target)

\* the iteration on currentEntities[i] up to the computation of nextX (lines 384-520)
BeforeX(i, c, target) ==
    Control(Forces(StaticExit(
        TurretLogic(PatrolLogic(StartEntity(c.cur[i], target)), c)), c), c)

\* entRectX of line 529: ent at its clamped nextX
TentativeX(ent, deltaTime) ==
    [ent EXCEPT !.pos.x = XStep(ent, ent.velocity.x, <<>>, deltaTime).nextX]

\* entRectY of line 562: ent, pos.x written, at its nextY
TentativeY(ent, deltaTime) ==
    [ent EXCEPT !.pos.y = @ + Displace(ent.velocity.y, deltaTime)]

\* rect overlaps the entity the exit test of lines 616-617 finds in cur
OverlapsExit(rect, cur) ==
    /\ FindType(cur, "EXIT", 1) # 0
    /\ checkCollision(rect, cur[FindType(cur, "EXIT", 1)])

\* rect overlaps an entity of cur on which the death test of lines 536-537 and
\* 572-573 succeeds for a Player: another entity, visible and deadly
TouchesDeadly(rect, cur) ==
    \E k \in 1..Len(cur) :
        /\ rect.id # cur[k].id
        /\ cur[k].isVisible
        /\ cur[k].isDeadly
        /\ checkCollision(rect, cur[k])

\* variant: a commit filter that keeps the visible entities only
Active_VisibleOnly(e) == e.isVisible

\* the commit filter of line 632
Active(e) == e.isVisible \/ (e.type # "PROJECTILE" /\ ~e.isVisible)

RECURSIVE FilterActive(_)
FilterActive(es) ==
    IF es = <<>> THEN <<>>
    ELSE (IF Active(Head(es)) THEN <<Head(es)>> ELSE <<>>) \o FilterActive(Tail(es))

\* The state of the entity loop:
\*   cur      currentEntities, the local array (updated entries before i)
\*   base     the entities of entitiesRef.current as the in-place writes left them
\*   bp       the blueprint's templates as the in-place writes left them
\*   proj     newProjectiles
\*   target   targetXRef.current
\*   outcome, cause, idx   how and where the loop ended ("none": it ran through)
\*   visited  the number of iterations begun
\* Advance: the loop state after the iteration r on entity i
Advance(i, st, r) ==
    LET wrVel == ~r.velReplaced
        shPos == i <= Len(st.bp) /\ st.cur[i].sharesPos
        shVel == i <= Len(st.bp) /\ st.cur[i].sharesVel /\ wrVel
    IN  [st EXCEPT
           !.base = [@ EXCEPT ![i].pos = r.ent.pos,
                              ![i].velocity = IF wrVel THEN r.ent.velocity ELSE @],
           !.bp = [k \in 1..Len(@) |->
                     IF k # i THEN @[k]
                     ELSE [@[k] EXCEPT !.pos = IF shPos THEN r.ent.pos ELSE @,
                                       !.velocity = IF shVel THEN r.ent.velocity ELSE @]],
           !.cur = IF r.outcome = "none" THEN [@ EXCEPT ![i] = r.ent] ELSE @,
           !.proj = @ \o r.spawn,
           !.target = r.target,
           !.outcome = r.outcome,
           !.cause = r.cause,
           !.idx = IF r.outcome = "none" THEN 0 ELSE i,
           !.visited = @ + 1]

\* the entity loop from index i on
RECURSIVE EntityLoop(_, _, _, _, _, _)
EntityLoop(i, st, time, deltaTime, phys, keys) ==
    IF i > Len(st.cur) \/ st.outcome # "none" THEN st
    ELSE EntityLoop(i + 1,
                    Advance(i, st, ProcessEntity(i, st.cur, time, deltaTime, phys, keys,
                                                 st.target)),
                    time, deltaTime, phys, keys)

\* the body of a running gameLoop(time) up to its end or early return
Frame(entities, bp, time, deltaTime, phys, keys, target) ==
    EntityLoop(1, [cur |-> entities, base |-> entities, bp |-> bp, proj |-> <<>>,
                   target |-> target, outcome |-> "none", cause |-> "", idx |-> 0,
                   visited |-> 0],
               time, deltaTime, phys, keys)

\* line 632: the list a frame that ran through commits
ActiveEntities(st) == FilterActive(st.cur) \o st.proj

----------------------------------------------------------------------------
(* Level repository.  levels.ts is not part of the sources: the blueprints  *)
(* below are model inputs of the LevelData shape, ids 1..NumLevels in       *)
(* order, as handleLevelComplete assumes.                                  *)

DEFAULT_PHYSICS == [gravity |-> 5, friction |-> 85, timeScale |-> 10]

Floor == Template("floor", "WALL", 0, 450, 800, 50)

ExitAt(x, y) == [Template("exit", "EXIT", x, y, 50, 100) EXCEPT !.isSolid = FALSE]

\* what handleEditorDrop builds for ENEMY: a deadly patrol, dynamic, 100 px path
PatrolEnemy(id, x, y) ==
    [Template(id, "ENEMY", x, y, 30, 30) EXCEPT
        !.isStatic = FALSE, !.isDeadly = TRUE, !.behavior = "PATROL",
        !.patrolStart = Some(Vec(x * PX, y * PX)),
        !.patrolEnd = Some(Vec((x + 100) * PX, y * PX))]

\* what handleEditorDrop builds for a turret: a static solid ENEMY, fireRate 2000
Turret(id, x, y) ==
    [Template(id, "ENEMY", x, y, 30, 30) EXCEPT !.behavior = "TURRET", !.fireRate = 2000]

\* a hidden caption whose id is the id of the projectile the turret "turret"
\* fires at the timestamp 20
Caption ==
    [Template("", "TEXT", 700, 50, 100, 20) EXCEPT
        !.id = <<"proj", <<"turret">>, 20>>, !.isSolid = FALSE, !.isVisible = FALSE]

\* level 1: floor, a patrol left of the start, a turret right of it, the exit,
\* the caption
Level1 ==
    [id |-> 1, startPos |-> Vec(50 * PX, 418 * PX),
     entities |-> <<Floor, PatrolEnemy("enemy", 10, 420), Turret("turret", 110, 420),
                    ExitAt(85, 350), Caption>>,
     physics |-> DEFAULT_PHYSICS]

\* level 2: floor, a turret out of range, the exit at the start
Level2 ==
    [id |-> 2, startPos |-> Vec(50 * PX, 418 * PX),
     entities |-> <<Floor, Turret("far", 700, 100), ExitAt(40, 350)>>,
     physics |-> DEFAULT_PHYSICS]

\* level 3 (the last): no floor, strong gravity at double time scale; a patrol
\* that falls faster than the player, the exit just below and left of the start
Level3 ==
    [id |-> 3, startPos |-> Vec(50 * PX, 568 * PX),
     entities |-> <<[PatrolEnemy("faller", 300, 570) EXCEPT !.gravityScale = Some(4)],
                    ExitAt(20, 600)>>,
     physics |-> [gravity |-> 20, friction |-> 85, timeScale |-> 20]]

InitialLevels == <<Level1, Level2, Level3>>

\* useState<LevelData>: the empty custom level
InitialEditorLevel ==
    [id |-> 99, startPos |-> Vec(50 * PX, 400 * PX), entities |-> <<>>,
     physics |-> DEFAULT_PHYSICS]

----------------------------------------------------------------------------
(* Bounds of the checked runs *)

MaxTicks == 3
MaxNav == 2
MaxInputs == 1
MaxEdits == 1
MaxPause == 2
MaxResize == 1

\* gaps between scheduler ticks, ms: a regular frame and a long hitch
TickGaps == {20, 3000}

\* click-to-target X coordinates (px)
ClickXs == {0, 400}

Keys == {"Right", "Jump"}

\* Inspector toggles
Flags == {"isSolid", "isVisible"}

\* Inspector sliders: field and value (tenths)
PhysicsUpdates == {<<"timeScale", 20>>}

\* palette items and canvas spots (px) of an editor drop
DropTypes == {"ENEMY", "EXIT"}

DropSpots == {Vec(40, 400)}

\* widths typed into the Inspector's dimensions input (px); an emptied input gives 0
TypedWidths == {0}

\* delay of the level-complete timeout, ms
COMPLETE_DELAY == 1500

----------------------------------------------------------------------------
(* App: derived values *)

\* LEVELS.find(l => l.id === id) || LEVELS[0], as an index into LEVELS
RECURSIVE FindLevel(_, _, _)
FindLevel(levels, id, k) ==
    IF k > Len(levels) THEN 1
    ELSE IF levels[k].id = id THEN k
    ELSE FindLevel(levels, id, k + 1)

LevelIndex(levels, id) == FindLevel(levels, id, 1)

\* variant: isRunning without the pause test
IsRunning_IgnorePause(gs, testing, paused) ==
    gs = "PLAYING" \/ (gs = "EDITOR" /\ testing)

\* const isRunning (line 368)
IsRunning(gs, testing, paused) ==
    (gs = "PLAYING" \/ (gs = "EDITOR" /\ testing)) /\ ~paused

\* variant: the cap of line 375 at twice its value
ClampDelta_DoubleCap(time, lastTime) == Min(time - lastTime, 2 * MAX_DELTA_MS)

\* const deltaTime (line 375), before the timeScale factor: ms
ClampDelta(time, lastTime) == Min(time - lastTime, MAX_DELTA_MS)

DeltaTime(time, lastTime, timeScale) == ClampDelta(time, lastTime) * timeScale

\* Init Playing State effect, editor build mode: the templates themselves, then the ghost
EditorEntities(ed) ==
    [k \in 1..Len(ed.entities) |->
        [ed.entities[k] EXCEPT !.sharesPos = TRUE, !.sharesVel = TRUE]]
        \o <<GhostPlayer(ed.startPos)>>

\* the blueprint resetLevel and the frame's in-place writes refer to
BlueprintOf(gs, levels, ed, levelId) ==
    IF gs = "EDITOR" THEN ed ELSE levels[LevelIndex(levels, levelId)]

NoTouch ==
    [exit |-> FALSE, deadly |-> FALSE, projectile |-> FALSE, target |-> FALSE,
     fall |-> FALSE]

\* the observation of a gameLoop invocation that did no work
IdleFrame == [ran |-> FALSE, time |-> 0, raw |-> 0, deltaTime |-> 0, timeScale |-> 0,
              outcome |-> "skip", cause |-> "", idx |-> 0, visited |-> 0, count |-> 0,
              spawned |-> <<>>, fired |-> {}, touches |-> NoTouch,
              isolated |-> TRUE]

----------------------------------------------------------------------------
(* Initial state: the App component after its first render (MENU) *)

Init ==
    /\ gameState = "MENU"
    /\ currentLevelId = 1
    /\ isPaused = FALSE
    /\ isEditorTesting = FALSE
    /\ editorLevel = InitialEditorLevel
    /\ LEVELS = InitialLevels
    /\ entitiesRef = <<>>
    /\ physicsRef = InitialLevels[1].physics
    /\ keysRef = {}
    /\ targetXRef = None
    /\ lastTimeRef = 0
    /\ requestRef = FALSE
    /\ pendingFrames = 0
    /\ timers = <<>>
    /\ clock = 0
    /\ worldSrc = 1
    /\ lastFrame = IdleFrame
    /\ shots = [epoch |-> 0, last |-> {}]
    /\ budget = [ticks |-> MaxTicks, nav |-> MaxNav, inputs |-> MaxInputs,
                 edits |-> MaxEdits, pause |-> MaxPause, resize |-> MaxResize]

----------------------------------------------------------------------------
(* The host scheduler's frame callbacks *)

\* requestRef.current = requestAnimationFrame(gameLoop) in the state h
requestAnimationFrame(h) == [h EXCEPT !.pend = @ + 1, !.req = TRUE]

\* variant: a cancelAnimationFrame that cancels nothing
cancelAnimationFrame_Nothing(h) == h

\* cancelAnimationFrame(requestRef.current): the callback that id names leaves
\* the scheduler's list if it is still on it
cancelAnimationFrame(h) ==
    IF h.req THEN [h EXCEPT !.pend = @ - 1, !.req = FALSE] ELSE h

\* the scheduler takes the oldest pending callback off its list and calls it;
\* the one requestRef.current names is the most recent
Called(h) ==
    IF h.pend > (IF h.req THEN 1 ELSE 0) THEN [h EXCEPT !.pend = @ - 1]
    ELSE [h EXCEPT !.pend = @ - 1, !.req = FALSE]

----------------------------------------------------------------------------
(* React commit: the two effects that follow a state change *)

\* the state as a handler finds it
Here ==
    [gs |-> gameState, lvl |-> currentLevelId, paused |-> isPaused,
     testing |-> isEditorTesting, ed |-> editorLevel, edSet |-> FALSE,
     levels |-> LEVELS, ents |-> entitiesRef, phys |-> physicsRef, tgt |-> targetXRef,
     req |-> requestRef, pend |-> pendingFrames, src |-> worldSrc, epoch |-> shots.epoch, timers |-> timers]

\* The state after a handler left the React state and the refs at n (edSet:
\* setEditorLevel was called) and React committed the render:
\*  - Init Playing State effect (deps currentLevelId, gameState, isEditorTesting,
\*    editorLevel), lines 315-347
\*  - frame-loop registration effect (deps gameLoop, gameState), lines 638-643;
\*    gameLoop changes with isPaused, currentLevelId, gameState, isEditorTesting,
\*    editorLevel
Effects(n) ==
    LET initDeps == \/ n.lvl # currentLevelId
                    \/ n.gs # gameState
                    \/ n.testing # isEditorTesting
                    \/ n.edSet
        loopDeps == initDeps \/ n.paused # isPaused
        playInit == initDeps /\ n.gs = "PLAYING"
        buildInit == initDeps /\ n.gs = "EDITOR" /\ ~n.testing
        k == LevelIndex(n.levels, n.lvl)
        m == [n EXCEPT
                !.ents = IF playInit THEN setupLevel(n.levels[k])
                         ELSE IF buildInit THEN EditorEntities(n.ed)
                         ELSE @,
                !.phys = IF playInit THEN n.levels[k].physics
                         ELSE IF buildInit THEN n.ed.physics
                         ELSE @,
                !.tgt = IF playInit THEN None ELSE @,
                !.src = IF playInit THEN k ELSE IF buildInit THEN 0 ELSE @,
                !.epoch = IF playInit THEN @ + 1 ELSE @]
    IN  IF ~loopDeps THEN m
        ELSE IF n.gs \in {"PLAYING", "EDITOR"}
          THEN requestAnimationFrame(cancelAnimationFrame(m))
        ELSE cancelAnimationFrame(m)

\* the next state is n
Becomes(n) ==
    /\ gameState' = n.gs
    /\ currentLevelId' = n.lvl
    /\ isPaused' = n.paused
    /\ isEditorTesting' = n.testing
    /\ editorLevel' = n.ed
    /\ LEVELS' = n.levels
    /\ entitiesRef' = n.ents
    /\ physicsRef' = n.phys
    /\ targetXRef' = n.tgt
    /\ requestRef' = n.req
    /\ pendingFrames' = n.pend
    /\ worldSrc' = n.src
    /\ timers' = n.timers

Commit(n) == Becomes(Effects(n))

Spend(what) == budget' = [budget EXCEPT ![what] = @ - 1]

----------------------------------------------------------------------------
(* Menu navigation *)

Navigate(n) ==
    /\ budget.nav > 0
    /\ Commit(n)
    /\ shots' = [shots EXCEPT !.epoch = Effects(n).epoch]
    /\ Spend("nav")
    /\ UNCHANGED <<keysRef, lastTimeRef, clock, lastFrame>>

\* EXECUTE button
StartPlaying ==
    /\ gameState = "MENU"
    /\ Navigate([Here EXCEPT !.gs = "PLAYING"])

\* LEVEL_EDITOR button
OpenEditor ==
    /\ gameState = "MENU"
    /\ Navigate([Here EXCEPT !.gs = "EDITOR"])

\* README.TXT button
OpenAbout ==
    /\ gameState = "MENU"
    /\ Navigate([Here EXCEPT !.gs = "ABOUT"])

\* RETURN_TO_ROOT, the PLAYING back arrow, EXIT EDITOR
ReturnToMenu ==
    /\ gameState \in {"ABOUT", "PLAYING", "EDITOR"}
    /\ Navigate([Here EXCEPT !.gs = "MENU"])

\* REBOOT SYSTEM button
Reboot ==
    /\ gameState = "WON"
    /\ Navigate([Here EXCEPT !.gs = "MENU", !.lvl = 1])

\* LEVEL_SELECT buttons
SelectLevel(k) ==
    /\ gameState = "PLAYING"
    /\ LEVELS[k].id # currentLevelId
    /\ Navigate([Here EXCEPT !.lvl = LEVELS[k].id])

\* handleTestToggle: setupLevel(editorLevel) and the flipped flag
TestToggle ==
    /\ gameState = "EDITOR"
    /\ Navigate([Here EXCEPT !.testing = ~isEditorTesting,
                             !.ents = setupLevel(editorLevel),
                             !.phys = editorLevel.physics,
                             !.tgt = None, !.src = 0, !.epoch = @ + 1])

\* Inspector pause button (onTogglePause)
TogglePause ==
    /\ gameState \in {"PLAYING", "EDITOR"}
    /\ budget.pause > 0
    /\ Commit([Here EXCEPT !.paused = ~isPaused])
    /\ Spend("pause")
    /\ UNCHANGED <<keysRef, lastTimeRef, clock, lastFrame, shots>>

----------------------------------------------------------------------------
(* Input handlers *)

\* handleSceneClick (the viewport calls it outside editor build mode)
SceneClick(x) ==
    /\ IsRunning(gameState, isEditorTesting, isPaused)
    /\ budget.inputs > 0
    /\ targetXRef' = Some(x * PX)
    /\ Spend("inputs")
    /\ UNCHANGED <<gameState, currentLevelId, isPaused, isEditorTesting, editorLevel, LEVELS,
                   entitiesRef, physicsRef, keysRef, lastTimeRef, requestRef, pendingFrames,
                   timers, clock, worldSrc, lastFrame, shots>>

\* handleKeyDown
KeyDown(k) ==
    /\ k \notin keysRef
    /\ budget.inputs > 0
    /\ keysRef' = keysRef \cup {k}
    /\ Spend("inputs")
    /\ UNCHANGED <<gameState, currentLevelId, isPaused, isEditorTesting, editorLevel, LEVELS,
                   entitiesRef, physicsRef, targetXRef, lastTimeRef, requestRef,
                   pendingFrames, timers, clock, worldSrc, lastFrame, shots>>

\* handleKeyUp
KeyUp(k) ==
    /\ k \in keysRef
    /\ keysRef' = keysRef \ {k}
    /\ UNCHANGED <<gameState, currentLevelId, isPaused, isEditorTesting, editorLevel, LEVELS,
                   entitiesRef, physicsRef, targetXRef, lastTimeRef, requestRef,
                   pendingFrames, timers, clock, worldSrc, lastFrame, shots, budget>>

\* { ...ent, ...updates } for an Inspector toggle of flag f
ApplyUpdate(e, f) ==
    IF f = "isSolid" THEN [e EXCEPT !.isSolid = ~@]
    ELSE IF f = "isVisible" THEN [e EXCEPT !.isVisible = ~@]
    ELSE IF f = "isStatic" THEN [e EXCEPT !.isStatic = ~@]
    ELSE [e EXCEPT !.isDeadly = ~@]

UpdateAll(es, id, f) ==
    [k \in 1..Len(es) |-> IF es[k].id = id THEN ApplyUpdate(es[k], f) ELSE es[k]]

\* handleUpdateEntity, called by an Inspector toggle on the selected entity
\* (an entity is selected by a click on it; outside build mode only a visible
\* entity takes clicks)
UpdateEntity(i, f) ==
    /\ gameState \in {"PLAYING", "EDITOR"}
    /\ budget.edits > 0
    /\ i \in 1..Len(entitiesRef)
    /\ LET ent == entitiesRef[i]
           build == gameState = "EDITOR" /\ ~isEditorTesting
           local == UpdateAll(entitiesRef, ent.id, f)
       IN  /\ ent.isVisible \/ build
           /\ ~(f = "isVisible" /\ ent.isAlwaysVisible)
           /\ IF build /\ ent.id # <<"ghost_player">>
                THEN Commit([Here EXCEPT
                               !.ed.entities = UpdateAll(editorLevel.entities, ent.id, f),
                               !.edSet = TRUE, !.ents = local])
                ELSE Commit([Here EXCEPT !.ents = local])
    /\ Spend("edits")
    /\ UNCHANGED <<keysRef, lastTimeRef, clock, lastFrame, shots>>

\* { ...ent, size: { ...ent.size, x: w } } on the entity id
ResizeAll(es, id, w) ==
    [k \in 1..Len(es) |-> IF es[k].id = id THEN [es[k] EXCEPT !.size.x = w * PX] ELSE es[k]]

\* handleUpdateEntity, called by the Inspector's dimensions input (W), which the
\* Inspector shows in editor build mode for entities other than the player
UpdateSize(i, w) ==
    /\ gameState = "EDITOR"
    /\ ~isEditorTesting
    /\ budget.resize > 0
    /\ i \in 1..Len(entitiesRef)
    /\ entitiesRef[i].type # "PLAYER"
    /\ entitiesRef[i].size.x # w * PX
    /\ Commit([Here EXCEPT
                 !.ed.entities = ResizeAll(editorLevel.entities, entitiesRef[i].id, w),
                 !.edSet = TRUE,
                 !.ents = ResizeAll(entitiesRef, entitiesRef[i].id, w)])
    /\ Spend("resize")
    /\ UNCHANGED <<keysRef, lastTimeRef, clock, lastFrame, shots>>

\* handleUpdatePhysics, called by an Inspector slider
UpdatePhysics(field, v) ==
    /\ gameState \in {"PLAYING", "EDITOR"}
    /\ budget.edits > 0
    /\ physicsRef[field] # v
    /\ LET build == gameState = "EDITOR" /\ ~isEditorTesting
           phys == [physicsRef EXCEPT ![field] = v]
       IN  IF build
             THEN Commit([Here EXCEPT !.ed.physics[field] = v, !.edSet = TRUE,
                                      !.phys = phys])
             ELSE Commit([Here EXCEPT !.phys = phys])
    /\ Spend("edits")
    /\ UNCHANGED <<keysRef, lastTimeRef, clock, lastFrame, shots>>

\* handleEditorDrop: the template of a dropped palette item
NewEntity(type, x, y, n) ==
    LET size == IF type = "WALL" THEN Vec(100, 50)
                ELSE IF type = "EXIT" THEN Vec(50, 100)
                ELSE Vec(30, 30)
        t == [Template("", type, x, y, size.x, size.y) EXCEPT
                !.id = <<"custom", type, n>>,
                !.isStatic = type # "ENEMY",
                !.isSolid = type # "EXIT"]
    IN  IF type = "PROJECTILE"
          THEN [t EXCEPT !.type = "ENEMY", !.behavior = "TURRET", !.fireRate = 2000]
        ELSE IF type = "ENEMY"
          THEN [t EXCEPT !.behavior = "PATROL",
                         !.patrolStart = Some(Vec(x * PX, y * PX)),
                         !.patrolEnd = Some(Vec((x + 100) * PX, y * PX)),
                         !.isDeadly = TRUE]
        ELSE t

\* handleEditorDrop (the viewport calls it in editor build mode)
EditorDrop(type, spot) ==
    /\ gameState = "EDITOR"
    /\ ~isEditorTesting
    /\ budget.edits > 0
    /\ Commit([Here EXCEPT
                 !.ed.entities = Append(@, NewEntity(type, spot.x, spot.y,
                                                     Len(editorLevel.entities))),
                 !.edSet = TRUE])
    /\ Spend("edits")
    /\ UNCHANGED <<keysRef, lastTimeRef, clock, lastFrame, shots>>

----------------------------------------------------------------------------
(* The frame callback and the level-complete timeout *)

\* the entity loop's results equal, entity by entity, those computed against
\* the start-of-frame list snap
RECURSIVE Isolated(_, _, _, _, _, _, _, _)
RECURSIVE IsolatedFrom(_, _, _, _, _, _, _, _, _)
IsolatedFrom(i, cur, snap, time, deltaTime, phys, keys, r, q) ==
    /\ r = q
    /\ \/ r.outcome # "none"
       \/ Isolated(i + 1, [cur EXCEPT ![i] = r.ent], snap, time, deltaTime, phys, keys,
                   r.target)

Isolated(i, cur, snap, time, deltaTime, phys, keys, target) ==
    IF i > Len(cur) THEN TRUE
    ELSE IsolatedFrom(i, cur, snap, time, deltaTime, phys, keys,
                      ProcessEntity(i, cur, time, deltaTime, phys, keys, target),
                      ProcessEntity(i, snap, time, deltaTime, phys, keys, target))

\* the turrets of the projectiles in proj
RECURSIVE Spawners(_)
Spawners(proj) ==
    IF proj = <<>> THEN <<>> ELSE <<Head(proj).id[2]>> \o Spawners(Tail(proj))

\* the pending timeouts leave room for a tick at time
NoTimerDueBefore(time) == \A k \in 1..Len(timers) : timers[k].due >= time

\* gameLoop(time) while not running (lines 370-373)
SkipFrame(time) ==
    /\ requestRef' = requestAnimationFrame(Called(Here)).req
    /\ pendingFrames' = requestAnimationFrame(Called(Here)).pend
    /\ lastFrame' = [IdleFrame EXCEPT !.time = time]
    /\ UNCHANGED <<gameState, currentLevelId, isPaused, isEditorTesting, editorLevel, LEVELS,
                   entitiesRef, physicsRef, keysRef, targetXRef, lastTimeRef, timers,
                   worldSrc, shots>>

\* variant: resetLevel without line 677 (the click target stays)
resetLevel_KeepTarget(h, level, src) ==
    requestAnimationFrame(cancelAnimationFrame(
        [h EXCEPT !.ents = setupLevel(level), !.phys = level.physics,
                  !.src = src, !.epoch = @ + 1]))

\* resetLevel (lines 668-681) in the state h, level being the blueprint it finds
resetLevel(h, level, src) ==
    requestAnimationFrame(cancelAnimationFrame(
        [h EXCEPT !.ents = setupLevel(level), !.phys = level.physics, !.tgt = None,
                  !.src = src, !.epoch = @ + 1]))

\* handleLevelComplete (lines 654-666) at frame time time: the frame callback is
\* not registered again, the timeout is
handleLevelComplete(h, time) ==
    [cancelAnimationFrame(h) EXCEPT
        !.timers = Append(@, [level |-> h.lvl, due |-> time + COMPLETE_DELAY])]

\* lines 632-635: the commit of a frame that ran through
CommitFrame(h, st) ==
    requestAnimationFrame([h EXCEPT !.ents = ActiveEntities(st), !.tgt = st.target])

\* the state a running frame that ended as st leaves to React; the in-place
\* writes of the loop are in the world (st.base) and in the blueprint (st.bp)
AfterFrame(st, time) ==
    LET ed1 == IF worldSrc = 0 THEN [editorLevel EXCEPT !.entities = st.bp]
               ELSE editorLevel
        levels1 == IF worldSrc # 0 THEN [LEVELS EXCEPT ![worldSrc].entities = st.bp]
                   ELSE LEVELS
        h == [Called(Here) EXCEPT !.ed = ed1, !.levels = levels1, !.ents = st.base,
                                  !.tgt = st.target]
    IN  IF st.outcome = "none" THEN CommitFrame(h, st)
        ELSE IF st.outcome = "reset"
          THEN resetLevel(h, BlueprintOf(gameState, levels1, ed1, currentLevelId),
                          IF gameState = "EDITOR" THEN 0
                          ELSE LevelIndex(levels1, currentLevelId))
        ELSE IF gameState = "EDITOR" THEN [h EXCEPT !.testing = FALSE]
        ELSE handleLevelComplete(h, time)

\* the time of the last committed shot of turret id in the present world, 0 if none
PrevShot(id) ==
    IF \E x \in shots.last : x.id = id /\ x.epoch = shots.epoch
      THEN (CHOOSE x \in shots.last : x.id = id /\ x.epoch = shots.epoch).time
      ELSE 0

\* the projectiles a frame that ended as st committed, as shots
Fired(st, time) ==
    IF st.outcome = "none"
      THEN {[id |-> st.proj[k].id[2], time |-> time, epoch |-> shots.epoch,
             prev |-> PrevShot(st.proj[k].id[2])] : k \in 1..Len(st.proj)}
      ELSE {}

\* currentEntities as the iteration on index i finds it in the frame that ends
\* as st: the entries before i are the frame's results
IterationView(st, i) ==
    [k \in 1..Len(entitiesRef) |-> IF k < i THEN st.cur[k] ELSE entitiesRef[k]]

IterationContext(st, i, time, deltaTime) ==
    [cur |-> IterationView(st, i), time |-> time, deltaTime |-> deltaTime,
     phys |-> physicsRef, keys |-> keysRef]

\* the frame that ends as st runs the collision passes of index i
Collides(st, i) == i <= st.visited /\ ~entitiesRef[i].isStatic

\* entRectX of the iteration on index i
RectX(st, i, time, deltaTime) ==
    TentativeX(BeforeX(i, IterationContext(st, i, time, deltaTime), targetXRef).ent,
               deltaTime)

\* the iteration on index i reaches its Y pass
ReachesY(st, i, time, deltaTime) ==
    BeforeY(i, IterationContext(st, i, time, deltaTime), targetXRef).outcome = "none"

\* entRectY of the iteration on index i
RectY(st, i, time, deltaTime) ==
    TentativeY(BeforeY(i, IterationContext(st, i, time, deltaTime), targetXRef).ent,
               deltaTime)

\* the tentative rectangles of the iteration on index i
Rects(st, i, time, deltaTime) ==
    IF ~Collides(st, i) THEN {}
    ELSE {RectX(st, i, time, deltaTime)} \cup
         (IF ReachesY(st, i, time, deltaTime) THEN {RectY(st, i, time, deltaTime)} ELSE {})

\* what the rectangles of the frame that ends as st overlap:
\*   exit        a tentative rectangle of the Player, the Exit
\*   deadly      a tentative rectangle of the Player, a visible deadly entity
\*   projectile  a tentative rectangle of a Projectile, the Player
\*   target      a tentative rectangle of a Projectile, a Player that is
\*               visible and solid or deadly
\*   fall        the Player's pos.y, written by its Y pass, is below the
\*               canvas by more than FALL_MARGIN
Touches(st, time, deltaTime) ==
    LET p == FindType(entitiesRef, "PLAYER", 1)
        projs == {i \in 1..Len(entitiesRef) : entitiesRef[i].type = "PROJECTILE"}
    IN  IF p = 0 THEN NoTouch
        ELSE
          [exit |-> \E rect \in Rects(st, p, time, deltaTime) :
                      OverlapsExit(rect, IterationView(st, p)),
           deadly |-> \E rect \in Rects(st, p, time, deltaTime) :
                        TouchesDeadly(rect, IterationView(st, p)),
           projectile |-> \E i \in projs : \E rect \in Rects(st, i, time, deltaTime) :
                            checkCollision(rect, IterationView(st, i)[p]),
           target |-> \E i \in projs : \E rect \in Rects(st, i, time, deltaTime) :
                        /\ checkCollision(rect, IterationView(st, i)[p])
                        /\ Participates(rect, IterationView(st, i)[p]),
           fall |-> /\ Collides(st, p)
                    /\ st.base[p].pos.y > (CANVAS_HEIGHT + FALL_MARGIN) * PX]

FrameEnd(time, deltaTime, st, n, fired) ==
    /\ Becomes(n)
    /\ lastTimeRef' = time
    /\ lastFrame' = [ran |-> TRUE, time |-> time, raw |-> time - lastTimeRef,
                     deltaTime |-> deltaTime, timeScale |-> physicsRef.timeScale,
                     outcome |-> IF st.outcome = "none" THEN "commit" ELSE st.outcome,
                     cause |-> st.cause, idx |-> st.idx, visited |-> st.visited,
                     count |-> Len(entitiesRef), spawned |-> Spawners(st.proj),
                     fired |-> fired, touches |-> Touches(st, time, deltaTime),
                     isolated |-> Isolated(1, entitiesRef, entitiesRef, time, deltaTime,
                                           physicsRef, keysRef, targetXRef)]
    /\ shots' = [epoch |-> n.epoch,
                 last |-> {x \in shots.last : \A y \in fired : y.id # x.id} \cup fired]
    /\ UNCHANGED keysRef

FrameDone(time, deltaTime, st) ==
    FrameEnd(time, deltaTime, st, Effects(AfterFrame(st, time)), Fired(st, time))

RunFrameAt(time, deltaTime) ==
    FrameDone(time, deltaTime,
              Frame(entitiesRef,
                    IF worldSrc = 0 THEN editorLevel.entities
                    ELSE LEVELS[worldSrc].entities,
                    time, deltaTime, physicsRef, keysRef, targetXRef))

\* gameLoop(time) while running (lines 375-635)
RunFrame(time) == RunFrameAt(time, DeltaTime(time, lastTimeRef, physicsRef.timeScale))

\* the scheduler delivers the pending frame callback, gap ms after the last event
Tick(gap) ==
    /\ pendingFrames > 0
    /\ budget.ticks > 0
    /\ NoTimerDueBefore(clock + gap)
    /\ clock' = clock + gap
    /\ Spend("ticks")
    /\ IF IsRunning(gameState, isEditorTesting, isPaused)
         THEN RunFrame(clock + gap)
         ELSE SkipFrame(clock + gap)

\* the timeout of handleLevelComplete (lines 658-665) comes due; currentLevelId
\* is the value its closure captured
TimerFire ==
    /\ timers # <<>>
    /\ LET n == IF Head(timers).level < Len(LEVELS)
                  THEN [Here EXCEPT !.lvl = @ + 1, !.timers = Tail(@)]
                  ELSE [Here EXCEPT !.gs = "WON", !.timers = Tail(@)]
       IN  /\ Commit(n)
           /\ shots' = [shots EXCEPT !.epoch = Effects(n).epoch]
    /\ clock' = Max(clock, Head(timers).due)
    /\ UNCHANGED <<keysRef, lastTimeRef, lastFrame, budget>>

----------------------------------------------------------------------------

Next ==
    \/ StartPlaying
    \/ OpenEditor
    \/ OpenAbout
    \/ ReturnToMenu
    \/ Reboot
    \/ \E k \in 1..Len(LEVELS) : SelectLevel(k)
    \/ TestToggle
    \/ TogglePause
    \/ \E x \in ClickXs : SceneClick(x)
    \/ \E k \in Keys : KeyDown(k)
    \/ \E k \in Keys : KeyUp(k)
    \/ \E i \in 1..Len(entitiesRef), f \in Flags : UpdateEntity(i, f)
    \/ \E i \in 1..Len(entitiesRef), w \in TypedWidths : UpdateSize(i, w)
    \/ \E u \in PhysicsUpdates : UpdatePhysics(u[1], u[2])
    \/ \E t \in DropTypes, spot \in DropSpots : EditorDrop(t, spot)
    \/ \E gap \in TickGaps : Tick(gap)
    \/ TimerFire

Spec == Init /\ [][Next]_vars

----------------------------------------------------------------------------
(* Properties *)

\* a step of the frame callback (only Tick writes lastFrame)
TickStep == lastFrame' # lastFrame

PlayerOf(es) == FindType(es, "PLAYER", 1)

\* C1: a frame that detects a Player death at entity index i has begun no
\* iteration past i, and leaves the world freshly initialised from the current
\* level's blueprint (entities and physics, no projectile of that frame), the
\* click target cleared and the frame callback registered again.
C1_DeathShortCircuit ==
    [][(TickStep /\ lastFrame'.outcome = "reset") =>
         LET level == BlueprintOf(gameState, LEVELS', editorLevel', currentLevelId)
         IN  /\ lastFrame'.visited = lastFrame'.idx
             /\ entitiesRef' = setupLevel(level)
             /\ physicsRef' = level.physics
             /\ \A k \in 1..Len(entitiesRef') : entitiesRef'[k].type # "PROJECTILE"
             /\ targetXRef' = None
             /\ requestRef'
             /\ gameState' = gameState
             /\ currentLevelId' = currentLevelId]_vars

\* a death detected before the last entity, in a frame that had spawned a
\* projectile and with a click target set
C1_Witness ==
    /\ lastFrame.outcome = "reset"
    /\ lastFrame.time = clock
    /\ lastFrame.idx < lastFrame.count
    /\ lastFrame.spawned # <<>>
    /\ targetXRef = None
    /\ requestRef

\* C2: while the delayed transition of the current level's completion is
\* pending, no frame emits Complete or Reset, and no second transition is
\* scheduled.
C2_NotReentrant ==
    [][(TickStep /\ \E k \in 1..Len(timers) : timers[k].level = currentLevelId) =>
         /\ lastFrame'.outcome \notin {"reset", "complete"}
         /\ Len(timers') <= Len(timers)]_vars

\* C3: in MENU, ABOUT or WON no frame callback and no level-complete timeout
\* changes the entity list, the current level id or the game state.
C3_Cancellation ==
    [][(gameState \in {"MENU", "ABOUT", "WON"} /\ (TickStep \/ timers' # timers)) =>
         /\ entitiesRef' = entitiesRef
         /\ currentLevelId' = currentLevelId
         /\ gameState' = gameState]_vars

\* C4: a frame (with the reset or test exit it may end in) changes no template
\* and no start position of any blueprint.
C4_BlueprintImmutable ==
    [][TickStep => (LEVELS' = LEVELS /\ editorLevel' = editorLevel)]_vars

\* C5: every iteration of a frame's entity loop gives what it gives when its
\* collision queries read the start-of-frame list.
C5_SnapshotIsolation == lastFrame.isolated

\* C6: the step of every processed frame is min(raw gap, 50 ms) * timeScale,
\* at most 50 ms * timeScale.
C6_DeltaClamp ==
    lastFrame.ran =>
        /\ lastFrame.deltaTime =
              (IF lastFrame.raw < MAX_DELTA_MS THEN lastFrame.raw ELSE MAX_DELTA_MS)
                  * lastFrame.timeScale
        /\ lastFrame.deltaTime <= MAX_DELTA_MS * lastFrame.timeScale

\* a processed frame whose raw gap exceeded the cap
C6_Witness ==
    /\ lastFrame.ran
    /\ lastFrame.raw > MAX_DELTA_MS
    /\ lastFrame.deltaTime = MAX_DELTA_MS * lastFrame.timeScale

\* C7: a tick while paused, or outside PLAYING and editor testing, leaves the
\* entity list (with every lastFireTime), the physics constants and the click
\* target as they are, emits no outcome and registers the callback again.
C7_PauseSkipsWork ==
    [][(TickStep /\ (isPaused \/ ~(gameState = "PLAYING"
                                      \/ (gameState = "EDITOR" /\ isEditorTesting)))) =>
         /\ entitiesRef' = entitiesRef
         /\ physicsRef' = physicsRef
         /\ targetXRef' = targetXRef
         /\ lastFrame'.outcome = "skip"
         /\ timers' = timers
         /\ gameState' = gameState
         /\ currentLevelId' = currentLevelId
         /\ requestRef']_vars

\* a tick skipped in PLAYING while paused, the world in place
C7_Witness ==
    /\ ~lastFrame.ran
    /\ lastFrame.time = clock
    /\ clock > 0
    /\ gameState = "PLAYING"
    /\ isPaused
    /\ entitiesRef # <<>>
    /\ requestRef

\* C8: an invisible Player is not killed by a deadly entity, and an invisible
\* Exit (or an invisible Player) triggers no Complete.
C8_InvisibleExcluded ==
    [][(TickStep /\ lastFrame'.ran) =>
         /\ lastFrame'.cause = "deadly" => entitiesRef[lastFrame'.idx].isVisible
         /\ lastFrame'.outcome = "complete" =>
               /\ entitiesRef[lastFrame'.idx].isVisible
               /\ entitiesRef[FindType(entitiesRef, "EXIT", 1)].isVisible]_vars

\* C9 (as stated): a committed shot of a turret with fireRate F lies more than
\* F ms of tick time after that turret's previous committed shot, and leaves
\* the turret's lastFireTime at the frame's timestamp.
C9_RateGating ==
    [][TickStep =>
         \A y \in lastFrame'.fired :
            /\ \A x \in shots.last : \A k \in 1..Len(entitiesRef) :
                  (x.id = y.id /\ entitiesRef[k].id = y.id)
                      => y.time - x.time > entitiesRef[k].fireRate
            /\ \A k \in 1..Len(entitiesRef') :
                  entitiesRef'[k].id = y.id => entitiesRef'[k].lastFireTime = y.time]_vars

\* C9 (amended): the same for two committed shots with no initialisation of
\* the world (setupLevel) between them.
C9_RateGatingPerWorld ==
    [][TickStep =>
         \A y \in lastFrame'.fired :
            /\ \A x \in shots.last : \A k \in 1..Len(entitiesRef) :
                  (x.id = y.id /\ x.epoch = y.epoch /\ entitiesRef[k].id = y.id)
                      => y.time - x.time > entitiesRef[k].fireRate
            /\ \A k \in 1..Len(entitiesRef') :
                  entitiesRef'[k].id = y.id => entitiesRef'[k].lastFireTime = y.time]_vars

\* a turret's second committed shot in one world
C9_Witness ==
    /\ lastFrame.time = clock
    /\ \E y \in lastFrame.fired : y.prev # 0 /\ y.time > y.prev

\* C10: a turret that pushes a projectile in a frame found, at the start of
\* that frame, a Player entity that is visible and whose center is less than
\* 500 px from the turret's center.
C10_TargetGating ==
    [][TickStep =>
         \A j \in 1..Len(lastFrame'.spawned) :
            LET p == PlayerOf(entitiesRef)
            IN  /\ p # 0
                /\ entitiesRef[p].isVisible
                /\ \A k \in 1..Len(entitiesRef) :
                      entitiesRef[k].id = lastFrame'.spawned[j] =>
                         DistLess(Center(entitiesRef[p]).x - Center(entitiesRef[k]).x,
                                  Center(entitiesRef[p]).y - Center(entitiesRef[k]).y,
                                  TURRET_RANGE)]_vars

\* a frame, no Inspector edit before it, that pushed no projectile although the
\* world holds a turret that has never fired: the Player is out of range
C10_Witness ==
    /\ lastFrame.ran
    /\ lastFrame.time = clock
    /\ lastFrame.spawned = <<>>
    /\ budget.edits = MaxEdits
    /\ PlayerOf(entitiesRef) # 0
    /\ \E k \in 1..Len(entitiesRef) :
          /\ entitiesRef[k].behavior = "TURRET"
          /\ entitiesRef[k].fireRate # 0
          /\ entitiesRef[k].lastFireTime = 0
          /\ k <= lastFrame.visited
          /\ ~DistLess(Center(entitiesRef[PlayerOf(entitiesRef)]).x - Center(entitiesRef[k]).x,
                       Center(entitiesRef[PlayerOf(entitiesRef)]).y - Center(entitiesRef[k]).y,
                       TURRET_RANGE)

\* C11: when the timeout armed by the completion of level k comes due, the
\* current level becomes k + 1 if k is not the last level and the game state
\* becomes WON otherwise; from WON the game state changes only by the restart
\* action, which leads to MENU at level 1.
C11_CompletionTransition ==
    [][/\ (timers # <<>> /\ timers' = Tail(timers)) =>
             IF Head(timers).level < Len(LEVELS)
               THEN currentLevelId' = Head(timers).level + 1 /\ gameState' = gameState
               ELSE gameState' = "WON"
       /\ (gameState = "WON" /\ gameState' # "WON") =>
             (gameState' = "MENU" /\ currentLevelId' = 1)]_vars

\* the loop state at the end of the gameLoop invocation of this step
ThisFrame ==
    Frame(entitiesRef,
          IF worldSrc = 0 THEN editorLevel.entities ELSE LEVELS[worldSrc].entities,
          lastFrame'.time, lastFrame'.deltaTime, physicsRef, keysRef, targetXRef)

\* currentEntities as the iteration on index p finds it in a frame that ended
\* as st: the entries before p are that frame's results
ViewAt(st, p) == [k \in 1..Len(entitiesRef) |-> IF k < p THEN st.cur[k] ELSE entitiesRef[k]]

\* the frame that ended as st ran the iteration of index p through its death tests
Survived(st, p) == st.visited >= p /\ ~(st.outcome = "reset" /\ st.idx <= p)

\* C12: in a frame in which the (non-static) Player's iteration passes its
\* death tests and leaves the Player's rectangle overlapping the Exit entity,
\* the outcome is Complete and no iteration after the Player's is begun.
C12_ExitReached ==
    [][(TickStep /\ lastFrame'.ran) =>
         LET st == ThisFrame
             p == PlayerOf(entitiesRef)
             x == FindType(entitiesRef, "EXIT", 1)
         IN  (/\ p # 0
              /\ x # 0
              /\ ~entitiesRef[p].isStatic
              /\ Survived(st, p)
              /\ checkCollision(st.base[p], ViewAt(st, p)[x]))
             => /\ lastFrame'.outcome = "complete"
                /\ lastFrame'.idx = p
                /\ lastFrame'.visited = p]_vars

\* a level completed in a frame that left entities after the Player unprocessed
C12_Witness ==
    /\ lastFrame.outcome = "complete"
    /\ lastFrame.time = clock
    /\ lastFrame.idx < lastFrame.count
    /\ gameState = "PLAYING"
    /\ timers # <<>>

\* an id of the form the turret logic gives its projectiles
ProjectileForm(id) == Len(id) = 3 /\ id[1] = "proj"

ContextAt(st, p) ==
    [cur |-> ViewAt(st, p), time |-> lastFrame'.time, deltaTime |-> lastFrame'.deltaTime,
     phys |-> physicsRef, keys |-> keysRef]

\* ent, as its X pass left it, moves downward and its tentative Y rectangle
\* overlaps a visible solid entity of cur
GroundingEvent(ent, cur, deltaTime) ==
    /\ ent.velocity.y > 0
    /\ \E k \in 1..Len(cur) :
          /\ ent.id # cur[k].id
          /\ cur[k].isVisible
          /\ cur[k].isSolid
          /\ checkCollision([ent EXCEPT !.pos.y = @ + Displace(ent.velocity.y, deltaTime)],
                            cur[k])

\* C14: a frame leaves the Player's velocity.y at -600 exactly if a jump key is
\* held and, in that frame's Y pass, the Player moved downward into a visible
\* solid entity; what earlier frames saw of the jump key plays no part.
C14_GroundedJump ==
    [][(TickStep /\ lastFrame'.ran) =>
         LET st == ThisFrame
             p == PlayerOf(entitiesRef)
         IN  (p # 0 /\ ~entitiesRef[p].isStatic /\ Survived(st, p)) =>
                (st.base[p].velocity.y = -(JUMP_SPEED * PX)
                   <=> /\ "Jump" \in keysRef
                       /\ GroundingEvent(BeforeY(p, ContextAt(st, p), targetXRef).ent,
                                         ViewAt(st, p), lastFrame'.deltaTime))]_vars

\* a committed frame in which the Player, standing on the floor with the jump
\* key held, took off
C14_Witness ==
    /\ lastFrame.ran
    /\ lastFrame.outcome = "commit"
    /\ lastFrame.time = clock
    /\ "Jump" \in keysRef
    /\ PlayerOf(entitiesRef) # 0
    /\ entitiesRef[PlayerOf(entitiesRef)].velocity.y = -(JUMP_SPEED * PX)

----------------------------------------------------------------------------
(* Scenarios: the App started on a level repository of one level, driven by  *)
(* the EXECUTE button and the scheduler alone.                               *)

\* the first render over the repository levels, with ticks frames to run
ScenarioInit(levels, ticks) ==
    /\ gameState = "MENU"
    /\ currentLevelId = 1
    /\ isPaused = FALSE
    /\ isEditorTesting = FALSE
    /\ editorLevel = InitialEditorLevel
    /\ LEVELS = levels
    /\ entitiesRef = <<>>
    /\ physicsRef = levels[1].physics
    /\ keysRef = {}
    /\ targetXRef = None
    /\ lastTimeRef = 0
    /\ requestRef = FALSE
    /\ pendingFrames = 0
    /\ timers = <<>>
    /\ clock = 0
    /\ worldSrc = 1
    /\ lastFrame = IdleFrame
    /\ shots = [epoch |-> 0, last |-> {}]
    /\ budget = [ticks |-> ticks, nav |-> 1, inputs |-> 0, edits |-> 0, pause |-> 0,
                 resize |-> 0]

ScenarioNext ==
    \/ StartPlaying
    \/ \E gap \in TickGaps : Tick(gap)

\* a frame callback is registered and the scheduler can deliver it
FrameDue ==
    /\ pendingFrames > 0
    /\ budget.ticks > 0
    /\ \E gap \in TickGaps : NoTimerDueBefore(clock + gap)

\* a step in which the scheduler delivers the frame callback (only Tick spends a tick)
FrameDelivered == budget'.ticks < budget.ticks

\* requestAnimationFrame calls back every callback that is not cancelled: weak
\* fairness of the tick, WF_vars(\E gap \in TickGaps : Tick(gap)), with the
\* enabling condition of the tick written out as FrameDue
SchedulerFairness == []<>(~FrameDue) \/ []<><<FrameDelivered>>_vars

\* the landing scenario: the Player at (50,400) above a solid Wall at (0,450)
\* sized (800,50), gravity 0.5
LandingLevel ==
    [id |-> 1, startPos |-> Vec(50 * PX, 400 * PX), entities |-> <<Floor>>,
     physics |-> DEFAULT_PHYSICS]

LandingTicks == 11

LandingSpec ==
    /\ ScenarioInit(<<LandingLevel>>, LandingTicks)
    /\ [][ScenarioNext]_vars
    /\ SchedulerFairness

\* the committed Player rests on the Wall
Landed ==
    /\ PlayerOf(entitiesRef) # 0
    /\ entitiesRef[PlayerOf(entitiesRef)].pos.y = (450 - PLAYER_SIZE_Y) * PX
    /\ entitiesRef[PlayerOf(entitiesRef)].velocity.y = 0

\* C15: in the landing scenario, once the level is started, the Player
\* eventually is, and from then on stays, at pos.y = 418 with velocity.y = 0.
C15_Landing == [](gameState = "PLAYING" => <>[]Landed)

\* the Player at rest on the Wall after a processed frame that left frames to run
C15_Witness ==
    /\ Landed
    /\ lastFrame.ran
    /\ lastFrame.outcome = "commit"
    /\ lastFrame.time = clock
    /\ budget.ticks > 0

----------------------------------------------------------------------------

\* C16: the velocity of a patrolling entity, once it is not zero, is parallel
\* to patrolEnd - patrolStart in every committed entity list.
C16_PatrolParallel ==
    \A k \in 1..Len(entitiesRef) :
        LET e == entitiesRef[k]
        IN  (PatrolActive(e) /\ (e.velocity.x # 0 \/ e.velocity.y # 0)) =>
               e.velocity.x * PatrolPath(e).y - e.velocity.y * PatrolPath(e).x = 0

----------------------------------------------------------------------------
(* The patrol scenario *)

\* an entity patrolling between (0,0) and (100,0) at speed 100, kept on its
\* path (gravityScale 0)
Walker ==
    [Template("walker", "ENEMY", 0, 0, 30, 30) EXCEPT
        !.isStatic = FALSE, !.behavior = "PATROL",
        !.patrolStart = Some(Vec(0, 0)), !.patrolEnd = Some(Vec(100 * PX, 0)),
        !.patrolSpeed = 100, !.gravityScale = Some(0)]

\* the walker alone above the floor, the Player at rest far from its path
PatrolLevel ==
    [id |-> 1, startPos |-> Vec(700 * PX, 418 * PX), entities |-> <<Floor, Walker>>,
     physics |-> DEFAULT_PHYSICS]

PatrolTicks == 78

PatrolSpec ==
    /\ ScenarioInit(<<PatrolLevel>>, PatrolTicks)
    /\ [][ScenarioNext]_vars
    /\ SchedulerFairness

\* the walker's entry in the entity list es (Walker itself before the level starts)
WalkerIn(es) ==
    IF \E k \in 1..Len(es) : es[k].id = Walker.id
      THEN es[CHOOSE k \in 1..Len(es) : es[k].id = Walker.id]
      ELSE Walker

Forward(e) == e.velocity.x > 0

Backward(e) == e.velocity.x < 0

\* the longest and the shortest way of the walker in one frame (1/100 px)
MaxTravel == Displace(Walker.patrolSpeed * PX, MAX_DELTA_MS * DEFAULT_PHYSICS.timeScale)

MinTravel == Displace(Walker.patrolSpeed * PX, 20 * DEFAULT_PHYSICS.timeScale)

\* frames that take the walker from one turn to the next, at the most
HalfCycle == (Walker.patrolEnd[1].x + MaxTravel) \div MinTravel + 2

\* C17: the walker turns back in every frame that finds it moving forward at
\* or past the end of its path (progress >= 1) and turns forward in every
\* frame that finds it moving backward at or before the start (progress <= 0),
\* and in no other frame reverses; it is never more than one frame's travel
\* past an endpoint; and as long as frames are delivered it goes on turning.
C17_PatrolBounce ==
    /\ [][(TickStep /\ lastFrame'.ran /\ lastFrame'.outcome = "commit") =>
            LET e == WalkerIn(entitiesRef)
                f == WalkerIn(entitiesRef')
            IN  /\ (Forward(e) /\ e.pos.x >= e.patrolEnd[1].x) => Backward(f)
                /\ (Backward(e) /\ e.pos.x <= e.patrolStart[1].x) => Forward(f)
                /\ (Forward(e) /\ e.pos.x < e.patrolEnd[1].x) => ~Backward(f)
                /\ (Backward(e) /\ e.pos.x > e.patrolStart[1].x) => ~Forward(f)]_vars
    /\ [](/\ WalkerIn(entitiesRef).pos.x <= Walker.patrolEnd[1].x + MaxTravel
          /\ WalkerIn(entitiesRef).pos.x >= Walker.patrolStart[1].x - MaxTravel
          /\ WalkerIn(entitiesRef).pos.y = Walker.patrolStart[1].y)
    /\ []((Forward(WalkerIn(entitiesRef)) /\ budget.ticks >= HalfCycle)
             => <>Backward(WalkerIn(entitiesRef)))
    /\ []((Backward(WalkerIn(entitiesRef)) /\ budget.ticks >= HalfCycle)
             => <>Forward(WalkerIn(entitiesRef)))

\* the walker on its way forward again after a full round (more than 200 px
\* travelled: at least 41 frames of 50 ms)
C17_Witness ==
    /\ lastFrame.ran
    /\ lastFrame.time = clock
    /\ Forward(WalkerIn(entitiesRef))
    /\ WalkerIn(entitiesRef).pos.x > 0
    /\ clock >= 41 * 3000

----------------------------------------------------------------------------
(* Blueprint validation *)

\* C18: the frame loop runs only over entity lists whose entities all have
\* size.x > 0 and size.y > 0 (a blueprint with a zero-size entity is refused
\* when the level is initialised).
C18_PositiveSizes ==
    [][(TickStep /\ lastFrame'.ran) =>
          \A k \in 1..Len(entitiesRef) :
              entitiesRef[k].size.x > 0 /\ entitiesRef[k].size.y > 0]_vars

----------------------------------------------------------------------------
(* Frame outcomes *)

\* the blueprint of the current level after the step
BlueprintNext == BlueprintOf(gameState, LEVELS', editorLevel', currentLevelId)

\* C19: every processed frame ends in exactly one of three ways.  It commits
\* (the entity list becomes the loop's filtered list plus the new projectiles,
\* the next frame is requested, the world is not initialised again and no
\* completion is started), or it resets (the entity list becomes the initial
\* list of the blueprint, the next frame is requested, no completion is
\* started), or it completes (in PLAYING the completion timeout is armed, the
\* entity list is not replaced and no further frame is requested; in an editor
\* test the test ends).  A frame in which a tentative rectangle of the Player
\* overlaps a visible deadly entity and one overlaps the Exit resets.
C19_FrameTotality ==
    [][(TickStep /\ lastFrame'.ran) =>
         LET st == ThisFrame
             o == lastFrame'.outcome
         IN  /\ o \in {"commit", "reset", "complete"}
             /\ o = "commit" =>
                   /\ entitiesRef' = ActiveEntities(st)
                   /\ requestRef'
                   /\ timers' = timers
                   /\ isEditorTesting' = isEditorTesting
                   /\ shots'.epoch = shots.epoch
             /\ o = "reset" =>
                   /\ entitiesRef' = setupLevel(BlueprintNext)
                   /\ targetXRef' = None
                   /\ requestRef'
                   /\ timers' = timers
                   /\ isEditorTesting' = isEditorTesting
             /\ (o = "complete" /\ gameState = "PLAYING") =>
                   /\ Len(timers') = Len(timers) + 1
                   /\ ~requestRef'
                   /\ entitiesRef' = st.base
                   /\ shots'.epoch = shots.epoch
             /\ (o = "complete" /\ gameState = "EDITOR") =>
                   /\ isEditorTesting
                   /\ ~isEditorTesting'
                   /\ timers' = timers
             /\ (lastFrame'.touches.exit /\ lastFrame'.touches.deadly) => o = "reset"]_vars

\* a frame that reset the level although the Player's rectangle overlapped
\* the Exit: it also overlapped a deadly entity
C19_Witness ==
    /\ lastFrame.ran
    /\ lastFrame.time = clock
    /\ lastFrame.touches.exit
    /\ lastFrame.touches.deadly
    /\ lastFrame.outcome = "reset"
    /\ lastFrame.cause = "deadly"

----------------------------------------------------------------------------
(* Death triggers *)

\* the committed list keeps every entity of es that is neither the Player nor a
\* Projectile, with its visibility
Retained(es, next) ==
    \A k \in 1..Len(es) :
        es[k].type \notin {"PLAYER", "PROJECTILE"} =>
            \E j \in 1..Len(next) :
                /\ next[j].id = es[k].id
                /\ next[j].type = es[k].type
                /\ next[j].isVisible = es[k].isVisible

\* C20 (as stated): a frame resets whenever a tentative rectangle of the Player
\* overlaps a visible deadly entity, a tentative rectangle of a Projectile
\* overlaps the Player, or the Player's y after its Y pass exceeds
\* canvasHeight + 200; a frame that commits keeps every entity that is neither
\* the Player nor a Projectile, below canvasHeight + 200 or not.
C20_DeathTriggers ==
    [][(TickStep /\ lastFrame'.ran) =>
         /\ (\/ lastFrame'.touches.deadly
             \/ lastFrame'.touches.projectile
             \/ lastFrame'.touches.fall) => lastFrame'.outcome = "reset"
         /\ lastFrame'.outcome = "commit" => Retained(entitiesRef, entitiesRef')]_vars

\* C20 (amended): as C20, the Player that a Projectile's rectangle overlaps
\* being visible and solid or deadly.
C20_DeathTriggersOnTarget ==
    [][(TickStep /\ lastFrame'.ran) =>
         /\ (\/ lastFrame'.touches.deadly
             \/ lastFrame'.touches.target
             \/ lastFrame'.touches.fall) => lastFrame'.outcome = "reset"
         /\ lastFrame'.outcome = "commit" => Retained(entitiesRef, entitiesRef')]_vars

\* a frame that reset the level because a Projectile reached the Player
C20_Witness ==
    /\ lastFrame.ran
    /\ lastFrame.time = clock
    /\ lastFrame.touches.target
    /\ ~lastFrame.touches.deadly
    /\ ~lastFrame.touches.fall
    /\ lastFrame.outcome = "reset"
    /\ lastFrame.cause = "projectile"

----------------------------------------------------------------------------
(* Collision response *)

\* entRectX of ent overlaps an entity of cur that passes the filter of lines
\* 531-533 and is solid
HitsSolid(ent, rect, cur) ==
    \E k \in 1..Len(cur) :
        Participates(ent, cur[k]) /\ cur[k].isSolid /\ checkCollision(rect, cur[k])

\* ent.velocity.x after the clamps of lines 526-527
ClampedVx(ent, deltaTime) == XStep(ent, ent.velocity.x, <<>>, deltaTime).vx

\* the X pass of the iteration that found s0 and left s1, against cur, answers
\* a collision with a solid as C21 says
XResponse(s0, s1, cur, deltaTime) ==
    IF HitsSolid(s0.ent, TentativeX(s0.ent, deltaTime), cur)
      THEN /\ s1.ent.pos.x = s0.ent.pos.x
           /\ s1.ent.velocity.x = IF s0.ent.behavior = "PATROL"
                                    THEN -ClampedVx(s0.ent, deltaTime) ELSE 0
           /\ s0.ent.type = "PLAYER" => s1.target = None
      ELSE /\ s1.ent.pos.x = TentativeX(s0.ent, deltaTime).pos.x
           /\ s1.ent.velocity.x = ClampedVx(s0.ent, deltaTime)
           /\ s1.target = s0.target

\* C21: in every frame, for every non-static entity whose X pass ends without
\* a reset: if its X rectangle overlaps a visible solid, its x stays the
\* pre-move x, its velocity.x is negated if it is a Patrol entity and 0
\* otherwise, and the Player's click target is cleared; if not, its x is the
\* tentative x.  That x is written before the Y pass, whose rectangle stands
\* at it.
C21_AxisSeparation ==
    [][(TickStep /\ lastFrame'.ran) =>
         \A st \in {ThisFrame} : \A i \in 1..Len(entitiesRef) :
            Collides(st, i) =>
              \A c \in {ContextAt(st, i)} :
              \A s0 \in {BeforeX(i, c, targetXRef)}, s1 \in {BeforeY(i, c, targetXRef)} :
                 s1.outcome = "none" =>
                    /\ XResponse(s0, s1, c.cur, c.deltaTime)
                    /\ st.base[i].pos.x = s1.ent.pos.x
                    /\ \A ys \in {YStep(s1.ent, c.cur, c.deltaTime)} :
                          ys.dead = "" => st.base[i].pos.y = ys.nextY]_vars

\* the entities of cur that pass the filter of lines 565-567, are solid and
\* overlap rect
SolidsUnder(ent, rect, cur) ==
    {k \in 1..Len(cur) :
        Participates(ent, cur[k]) /\ cur[k].isSolid /\ checkCollision(rect, cur[k])}

\* a and b are visible, b is solid and their rectangles overlap
OverlapsSolid(a, b) ==
    a.id # b.id /\ b.isVisible /\ b.isSolid /\ checkCollision(a, b)

\* C22: in every frame, for every non-static entity E whose Y pass ends
\* without a reset and every visible solid O that E's Y rectangle overlaps: if
\* E was moving downward, its y is O.y - E.size.y, its velocity.y is 0 and it
\* is grounded; if it was moving upward, its y is O.y + O.size.y and its
\* velocity.y is 0.  Where its Y pass leaves it, E overlaps no visible solid
\* (as E's iteration finds it) that it did not overlap when the frame began.
C22_YResponse ==
    [][(TickStep /\ lastFrame'.ran) =>
         \A st \in {ThisFrame} : \A i \in 1..Len(entitiesRef) :
            Collides(st, i) =>
              \A c \in {ContextAt(st, i)} : \A s1 \in {BeforeY(i, c, targetXRef)} :
                 s1.outcome = "none" =>
                    \A ys \in {YStep(s1.ent, c.cur, c.deltaTime)} :
                       ys.dead = "" =>
                         /\ \A k \in SolidsUnder(s1.ent, TentativeY(s1.ent, c.deltaTime),
                                                 c.cur) :
                              /\ s1.ent.velocity.y > 0 =>
                                    /\ st.base[i].pos.y = c.cur[k].pos.y - s1.ent.size.y
                                    /\ ys.vy = 0
                                    /\ ys.grounded
                              /\ s1.ent.velocity.y < 0 =>
                                    /\ st.base[i].pos.y = c.cur[k].pos.y + c.cur[k].size.y
                                    /\ ys.vy = 0
                         /\ \A k \in 1..Len(entitiesRef) :
                                 OverlapsSolid(st.base[i], c.cur[k])
                                    => checkCollision(entitiesRef[i], entitiesRef[k])]_vars

----------------------------------------------------------------------------
(* World boundaries *)

\* a level without floor: the Player falls out of the canvas at the left, a
\* fast patrol runs into the right edge, a turret fires fast projectiles to
\* the left
BoundaryLevel ==
    [id |-> 1, startPos |-> Vec(20 * PX, 560 * PX),
     entities |->
        <<[Template("runner", "ENEMY", 700, 0, 30, 30) EXCEPT
              !.isStatic = FALSE, !.behavior = "PATROL",
              !.patrolStart = Some(Vec(700 * PX, 0)),
              !.patrolEnd = Some(Vec(800 * PX, 0)),
              !.patrolSpeed = 1000, !.gravityScale = Some(0)],
          [Turret("gun", 150, 560) EXCEPT !.projectileSpeed = 6000]>>,
     physics |-> DEFAULT_PHYSICS]

BoundaryTicks == 8

BoundarySpec ==
    /\ ScenarioInit(<<BoundaryLevel>>, BoundaryTicks)
    /\ [][ScenarioNext]_vars
    /\ SchedulerFairness

\* x clamped as lines 527-528 clamp nextX for an entity of width w
BoundX(x, w) ==
    IF x < 0 THEN 0
    ELSE IF x > CANVAS_WIDTH * PX - w THEN CANVAS_WIDTH * PX - w
    ELSE x

\* y clamped to the world rectangle for an entity of height h
BoundY(y, h) ==
    IF y < 0 THEN 0
    ELSE IF y > CANVAS_HEIGHT * PX - h THEN CANVAS_HEIGHT * PX - h
    ELSE y

\* the condition of line 524
FarOff(x) == x < -(OFF_CANVAS * PX) \/ x > (CANVAS_WIDTH + OFF_CANVAS) * PX

\* the tentative x and y of lines 523 and 560
RawX(ent, deltaTime) == ent.pos.x + Displace(ent.velocity.x, deltaTime)

RawY(ent, deltaTime) == ent.pos.y + Displace(ent.velocity.y, deltaTime)

\* the X pass that found s0 and left s1 clamps a tentative x outside the world
XClamp(s0, s1, cur, deltaTime) ==
    RawX(s0.ent, deltaTime) # BoundX(RawX(s0.ent, deltaTime), s0.ent.size.x) =>
        /\ s1.ent.velocity.x = 0
        /\ \/ s1.ent.pos.x = BoundX(RawX(s0.ent, deltaTime), s0.ent.size.x)
           \/ /\ HitsSolid(s0.ent, TentativeX(s0.ent, deltaTime), cur)
              /\ s1.ent.pos.x = s0.ent.pos.x

----------------------------------------------------------------------------
(* Projectile lifetime *)

\* a locked door (what handleEditorDrop builds for DOOR) between a turret and
\* the Player, the turret level with the Player
ProjectileLevel ==
    [id |-> 1, startPos |-> Vec(50 * PX, 418 * PX),
     entities |-> <<Floor, Template("door", "DOOR", 150, 300, 40, 150),
                    Turret("turret", 300, 419)>>,
     physics |-> DEFAULT_PHYSICS]

ProjectileTicks == 8

ProjectileSpec ==
    /\ ScenarioInit(<<ProjectileLevel>>, ProjectileTicks)
    /\ [][ScenarioNext]_vars
    /\ SchedulerFairness

\* a projectile in flight: in the entity list and visible
LiveProjectile(e) == e.type = "PROJECTILE" /\ ~e.isStatic /\ e.isVisible

\* C24: every frame that keeps a live projectile moves it: no projectile
\* stays where it is, in flight for ever (each projectile is removed after
\* finitely many frames, by leaving the bounds, striking a wall or falling).
C24_ProjectileLifetime ==
    [][(TickStep /\ lastFrame'.ran /\ lastFrame'.outcome = "commit") =>
          \A k \in 1..Len(entitiesRef) : \A j \in 1..Len(entitiesRef') :
             (/\ LiveProjectile(entitiesRef[k])
              /\ LiveProjectile(entitiesRef'[j])
              /\ entitiesRef'[j].id = entitiesRef[k].id)
             => entitiesRef'[j].pos # entitiesRef[k].pos]_vars

----------------------------------------------------------------------------
(* The commit filter *)

\* rect, a projectile's entRectX, passes the filters of lines 532-534 and the
\* test of line 547 against an entity of cur of type WALL
HitsWall(rect, cur) ==
    \E k \in 1..Len(cur) :
        /\ rect.id # cur[k].id
        /\ cur[k].isSolid \/ cur[k].isDeadly
        /\ cur[k].isVisible
        /\ cur[k].type = "WALL"
        /\ checkCollision(rect, cur[k])

\* the entries of the list es that are not invisible projectiles
KeptOf(es) == {k \in 1..Len(es) : ~(es[k].type = "PROJECTILE" /\ ~es[k].isVisible)}

\* C25: the list a frame commits holds, in their previous order, the entities
\* of the previous list (as the frame updated them) except the projectiles that
\* are invisible at the end of the frame, followed by the projectiles the
\* turrets spawned in this frame; a projectile whose X rectangle struck a wall
\* in this frame is among the dropped ones, an invisible entity of another
\* type is kept.
C25_CommitFilter ==
    [][(TickStep /\ lastFrame'.ran /\ lastFrame'.outcome = "commit") =>
         \A st \in {ThisFrame} : \A kept \in {KeptOf(st.cur)} :
            /\ Len(st.cur) = Len(entitiesRef)
            /\ \A k \in 1..Len(st.cur) : st.cur[k].id = entitiesRef[k].id
            /\ Len(entitiesRef') = Cardinality(kept) + Len(st.proj)
            /\ \A k \in kept : entitiesRef'[Cardinality({j \in kept : j <= k})] = st.cur[k]
            /\ \A n \in 1..Len(st.proj) :
                  /\ entitiesRef'[Cardinality(kept) + n] = st.proj[n]
                  /\ st.proj[n].type = "PROJECTILE"
                  /\ st.proj[n].isVisible
                  /\ ProjectileForm(st.proj[n].id)
                  /\ st.proj[n].id[3] = lastFrame'.time
            /\ \A i \in 1..Len(entitiesRef) :
                  /\ (/\ entitiesRef[i].type = "PROJECTILE"
                      /\ Collides(st, i)
                      /\ \A c \in {ContextAt(st, i)} :
                            HitsWall(TentativeX(BeforeX(i, c, targetXRef).ent, c.deltaTime),
                                     c.cur))
                     => i \notin kept
                  /\ (entitiesRef[i].type # "PROJECTILE" /\ ~entitiesRef[i].isVisible)
                     => i \in kept]_vars

\* the commit scenario: a pillar of type WALL between a turret and the Player,
\* and a hidden sign
CommitLevel ==
    [id |-> 1, startPos |-> Vec(50 * PX, 418 * PX),
     entities |-> <<Floor, Template("pillar", "WALL", 150, 300, 40, 150),
                    Turret("turret", 300, 419),
                    [Template("sign", "TEXT", 700, 50, 100, 20) EXCEPT
                        !.isSolid = FALSE, !.isVisible = FALSE]>>,
     physics |-> DEFAULT_PHYSICS]

CommitTicks == 8

CommitSpec ==
    /\ ScenarioInit(<<CommitLevel>>, CommitTicks)
    /\ [][ScenarioNext]_vars
    /\ SchedulerFairness

\* a frame has committed a list from which it dropped a projectile (in the
\* commit scenario: one that struck the pillar) and in which it kept the
\* hidden sign and a projectile of an earlier frame, with a projectile spawned
\* in this frame at the end
C25_Witness ==
    /\ lastFrame.ran
    /\ lastFrame.outcome = "commit"
    /\ lastFrame.time = clock
    /\ lastFrame.spawned # <<>>
    /\ Len(entitiesRef) < lastFrame.count + Len(lastFrame.spawned)
    /\ \E k \in 1..Len(entitiesRef) :
          entitiesRef[k].type # "PROJECTILE" /\ ~entitiesRef[k].isVisible
    /\ \E k \in 1..Len(entitiesRef) :
          entitiesRef[k].type = "PROJECTILE" /\ entitiesRef[k].id[3] < clock
    /\ entitiesRef[Len(entitiesRef)].type = "PROJECTILE"
    /\ entitiesRef[Len(entitiesRef)].id[3] = clock

----------------------------------------------------------------------------
(* The patrol tie-break *)

\* the Inspector's Speed input of the Patrol Vector panel: parseFloat(value) || 0
PatrolSpeeds == {200}

\* { ...ent, patrolSpeed: v } on the entity id
SetPatrolSpeed(es, id, v) ==
    [k \in 1..Len(es) |-> IF es[k].id = id THEN [es[k] EXCEPT !.patrolSpeed = v] ELSE es[k]]

\* handleUpdateEntity, called by the Speed input of the Inspector's Patrol
\* Vector panel, which is shown for a selected entity of behavior PATROL in
\* every mode
UpdatePatrolSpeed(i, v) ==
    /\ gameState \in {"PLAYING", "EDITOR"}
    /\ i \in 1..Len(entitiesRef)
    /\ LET ent == entitiesRef[i]
           build == gameState = "EDITOR" /\ ~isEditorTesting
           local == SetPatrolSpeed(entitiesRef, ent.id, v)
       IN  /\ ent.behavior = "PATROL"
           /\ ent.isVisible \/ build
           /\ ent.patrolSpeed # v
           /\ IF build /\ ent.id # <<"ghost_player">>
                THEN Commit([Here EXCEPT
                               !.ed.entities = SetPatrolSpeed(editorLevel.entities, ent.id, v),
                               !.edSet = TRUE, !.ents = local])
                ELSE Commit([Here EXCEPT !.ents = local])
    /\ UNCHANGED <<keysRef, lastTimeRef, clock, lastFrame, shots, budget>>

\* the tie-break scenario: on the floor a guard patrolling from x = 200 to
\* x = 300 with a solid crate standing on its path at x = 240; in the air a
\* kite patrolling along a rising path
TieBreakLevel ==
    [id |-> 1, startPos |-> Vec(50 * PX, 418 * PX),
     entities |-> <<Floor, PatrolEnemy("guard", 200, 420),
                    Template("crate", "PLATFORM", 240, 420, 30, 30),
                    [PatrolEnemy("kite", 500, 200) EXCEPT
                        !.patrolEnd = Some(Vec(600 * PX, 100 * PX))]>>,
     physics |-> DEFAULT_PHYSICS]

TieBreakTicks == 8

TieBreakNext ==
    \/ ScenarioNext
    \/ \E i \in 1..Len(entitiesRef), v \in PatrolSpeeds : UpdatePatrolSpeed(i, v)

TieBreakSpec ==
    /\ ScenarioInit(<<TieBreakLevel>>, TieBreakTicks)
    /\ [][TieBreakNext]_vars
    /\ SchedulerFairness

\* velocityDot of line 399
VelocityDot(ent) ==
    ent.velocity.x * PatrolPath(ent).x + ent.velocity.y * PatrolPath(ent).y

\* dot of line 395, ten times finer than the squared path length
ProgressDot(ent) ==
    (ent.pos.x - ent.patrolStart[1].x) * PatrolPath(ent).x
      + (ent.pos.y - ent.patrolStart[1].y) * PatrolPath(ent).y

\* the conditions of lines 408 and 414: moving forward at proj >= 1, moving
\* backward at proj <= 0
AtTurn(ent) ==
    LET path == PatrolPath(ent)
    IN  \/ VelocityDot(ent) >= 0 /\ ProgressDot(ent) >= (path.x * path.x + path.y * path.y) * 10
        \/ VelocityDot(ent) < 0 /\ ProgressDot(ent) <= 0

\* a and b travel along the path in opposite directions
Flipped(a, b) ==
    \/ VelocityDot(a) > 0 /\ VelocityDot(b) < 0
    \/ VelocityDot(a) < 0 /\ VelocityDot(b) > 0

\* C26: between two committed states a Patrol entity's direction
\* of travel along its path flips only in a frame that finds it moving
\* forward at progress >= 1 or moving backward at progress <= 0.
C26_TieBreak ==
    [][(TickStep /\ lastFrame'.ran /\ lastFrame'.outcome = "commit") =>
         \A st \in {ThisFrame} : \A i \in 1..Len(entitiesRef) :
            (PatrolActive(entitiesRef[i]) /\ Flipped(entitiesRef[i], st.cur[i]))
            => AtTurn(entitiesRef[i])]_vars

----------------------------------------------------------------------------
(* The click-target control law *)

\* the control scenario: the Player on the floor, the arrow keys and clicks
\* into the viewport
ControlLevel ==
    [id |-> 1, startPos |-> Vec(50 * PX, 418 * PX), entities |-> <<Floor>>,
     physics |-> DEFAULT_PHYSICS]

ControlTicks == 3

ControlInputs == 3

\* the keys of lines 486 and 490
ArrowKeys == {"Left", "Right"}

\* click positions: left of the Player, within 5 px of its center (66), right
\* of it
ControlClicks == {0, 68, 400}

\* the App after its first render on the one level of a scenario, with a
\* budget of frames, of inputs and of Inspector edits
InputInit(level, ticks, inputs, edits) ==
    /\ gameState = "MENU"
    /\ currentLevelId = 1
    /\ isPaused = FALSE
    /\ isEditorTesting = FALSE
    /\ editorLevel = InitialEditorLevel
    /\ LEVELS = <<level>>
    /\ entitiesRef = <<>>
    /\ physicsRef = level.physics
    /\ keysRef = {}
    /\ targetXRef = None
    /\ lastTimeRef = 0
    /\ requestRef = FALSE
    /\ pendingFrames = 0
    /\ timers = <<>>
    /\ clock = 0
    /\ worldSrc = 1
    /\ lastFrame = IdleFrame
    /\ shots = [epoch |-> 0, last |-> {}]
    /\ budget = [ticks |-> ticks, nav |-> 1, inputs |-> inputs, edits |-> edits,
                 pause |-> 0, resize |-> 0]

ControlNext ==
    \/ ScenarioNext
    \/ \E k \in ArrowKeys : KeyDown(k)
    \/ \E k \in ArrowKeys : KeyUp(k)
    \/ \E x \in ControlClicks : SceneClick(x)

ControlSpec ==
    /\ InputInit(ControlLevel, ControlTicks, ControlInputs, 0)
    /\ [][ControlNext]_vars
    /\ SchedulerFairness

\* targetX - center of lines 505-506 for the entity e
TargetDistance(e, target) == target[1] - (e.pos.x + TDiv(e.size.x, 2))

\* ent.velocity.x after the key tests of lines 486-493
Accelerated(vx, keys, deltaTime) ==
    vx + (IF "Right" \in keys THEN TDiv(MOVE_ACCEL * PX * deltaTime, 10000) ELSE 0)
       - (IF "Left" \in keys THEN TDiv(MOVE_ACCEL * PX * deltaTime, 10000) ELSE 0)

\* C27: in every frame that runs the Player's control step: without an arrow
\* key held and with a click target, the target is cleared and velocity.x set
\* to 0 if the target is less than 5 px from the Player's center, and
\* otherwise velocity.x is set to sign(distance) * 200 and the target kept;
\* with an arrow key held (left, right or both) the target is cleared and
\* velocity.x is the accelerated velocity times friction.  A target the
\* control step cleared is absent from the committed state.
C27_ControlLaw ==
    [][(TickStep /\ lastFrame'.ran) =>
         \A st \in {ThisFrame} : \A p \in {PlayerOf(entitiesRef)} :
            (p # 0 /\ Collides(st, p)) =>
               \A s0 \in {BeforeX(p, ContextAt(st, p), targetXRef)} :
               \A e \in {entitiesRef[p]} :
                  /\ (ArrowKeys \cap keysRef = {} /\ targetXRef # None) =>
                        IF Abs(TargetDistance(e, targetXRef)) < TARGET_EPS * PX
                          THEN s0.target = None /\ s0.ent.velocity.x = 0
                          ELSE /\ s0.target = targetXRef
                               /\ s0.ent.velocity.x =
                                    Sign(TargetDistance(e, targetXRef)) * MAX_WALK_SPEED * PX
                  /\ (ArrowKeys \cap keysRef # {}) =>
                        /\ s0.target = None
                        /\ s0.ent.velocity.x =
                              TDiv(Accelerated(e.velocity.x, keysRef, lastFrame'.deltaTime)
                                     * physicsRef.friction, 100)
                  /\ (s0.target = None /\ lastFrame'.outcome = "commit") => targetXRef' = None]_vars

\* after a committed frame without a key held the Player walks left at 200
\* px/s toward a click target that is kept
C27_Witness ==
    /\ lastFrame.ran
    /\ lastFrame.outcome = "commit"
    /\ lastFrame.time = clock
    /\ keysRef = {}
    /\ targetXRef = Some(0)
    /\ PlayerOf(entitiesRef) # 0
    /\ entitiesRef[PlayerOf(entitiesRef)].velocity.x = -(MAX_WALK_SPEED * PX)

----------------------------------------------------------------------------
(* Reaching the click target *)

\* the target scenario: the Player on the floor of a level played at time
\* scale 2, clicks into the viewport, no key
TargetLevel ==
    [id |-> 1, startPos |-> Vec(50 * PX, 418 * PX), entities |-> <<Floor>>,
     physics |-> [DEFAULT_PHYSICS EXCEPT !.timeScale = 20]]

TargetTicks == 6

TargetInputs == 1

\* click positions: 12 px and 134 px right of the Player's center (66)
TargetClicks == {78, 200}

TargetNext ==
    \/ ScenarioNext
    \/ \E x \in TargetClicks : SceneClick(x)

TargetSpec ==
    /\ InputInit(TargetLevel, TargetTicks, TargetInputs, 0)
    /\ [][TargetNext]_vars
    /\ SchedulerFairness

\* C28: a click target set while running is cleared after finitely many
\* frames without manual input.  What that rests on, frame by frame: the
\* control step drives the Player toward the target, so no frame carries the
\* Player's center from one side of a target to the other side, 5 px or more
\* away from it, and leaves the target set (from such a frame on, frames of
\* the same length carry the Player back and forth across the target and
\* never clear it).
C28_TargetReached ==
    [][(TickStep /\ lastFrame'.ran /\ lastFrame'.outcome = "commit"
          /\ ArrowKeys \cap keysRef = {} /\ targetXRef # None /\ targetXRef' # None) =>
         \A p \in {PlayerOf(entitiesRef)} : \A q \in {PlayerOf(entitiesRef')} :
            (p # 0 /\ q # 0) =>
               ~(/\ Sign(TargetDistance(entitiesRef[p], targetXRef))
                      = -Sign(TargetDistance(entitiesRef'[q], targetXRef'))
                 /\ Abs(TargetDistance(entitiesRef'[q], targetXRef')) >= TARGET_EPS * PX)]_vars

----------------------------------------------------------------------------
(* Static entities *)

StaticTicks == 4

StaticEdits == 2

\* the static scenario: level 1, the Inspector's isStatic toggle on any
\* visible entity
StaticNext ==
    \/ ScenarioNext
    \/ \E i \in 1..Len(entitiesRef) : UpdateEntity(i, "isStatic")

StaticSpec ==
    /\ InputInit(Level1, StaticTicks, 0, StaticEdits)
    /\ [][StaticNext]_vars
    /\ SchedulerFairness

\* C29: in every frame, whatever its outcome, the entity loop leaves an entity
\* that is static when the frame begins with its position and its velocity;
\* it changes nothing of it except the lastFireTime of a turret that fires,
\* which becomes the frame's timestamp, and a frame that commits commits it
\* so; and the iteration that ends a frame with a reset or a level completion
\* is never that of a static entity.  (The world a reset builds afterwards
\* comes from the blueprint, for static entities as for all others.)
C29_StaticExemption ==
    [][(TickStep /\ lastFrame'.ran) =>
         \A st \in {ThisFrame} :
            /\ \A i \in 1..Len(entitiesRef) :
                  entitiesRef[i].isStatic =>
                     /\ st.base[i].pos = entitiesRef[i].pos
                     /\ st.base[i].velocity = entitiesRef[i].velocity
                     /\ st.cur[i] = [entitiesRef[i] EXCEPT !.lastFireTime = st.cur[i].lastFireTime]
                     /\ st.cur[i].lastFireTime # entitiesRef[i].lastFireTime =>
                           /\ entitiesRef[i].behavior = "TURRET"
                           /\ st.cur[i].lastFireTime = lastFrame'.time
                     /\ (lastFrame'.outcome = "commit" /\ i \in KeptOf(st.cur)) =>
                           entitiesRef'[Cardinality({j \in KeptOf(st.cur) : j <= i})] = st.cur[i]
            /\ lastFrame'.outcome \in {"reset", "complete"} =>
                  ~entitiesRef[lastFrame'.idx].isStatic]_vars

\* after a committed frame the Player, made static in the Inspector, stands
\* where the level put it, next to a static turret that fired in this frame
C29_Witness ==
    /\ lastFrame.ran
    /\ lastFrame.outcome = "commit"
    /\ lastFrame.time = clock
    /\ PlayerOf(entitiesRef) # 0
    /\ entitiesRef[PlayerOf(entitiesRef)].isStatic
    /\ entitiesRef[PlayerOf(entitiesRef)].pos = Level1.startPos
    /\ \E k \in 1..Len(entitiesRef) :
          /\ entitiesRef[k].behavior = "TURRET"
          /\ entitiesRef[k].isStatic
          /\ entitiesRef[k].lastFireTime = clock

----------------------------------------------------------------------------
(* The overlap test *)

\* the box scenario: on the floor, next to the Player (x 50..82, y 418..450),
\* a static solid box at a position and of a size drawn from the sets below:
\* apart from the Player, touching it along an edge or at a corner, overlapping it
BoxXs == {18, 34, 50, 66, 82}

BoxYs == {386, 402, 418, 434, 450}

BoxSizes == {16, 32}

BoxLevel(x, y, w, h) ==
    [id |-> 1, startPos |-> Vec(50 * PX, 418 * PX),
     entities |-> <<Floor, Template("box", "PLATFORM", x, y, w, h)>>,
     physics |-> DEFAULT_PHYSICS]

BoxTicks == 2

BoxSpec ==
    /\ \E x \in BoxXs, y \in BoxYs, w \in BoxSizes, h \in BoxSizes :
          InputInit(BoxLevel(x, y, w, h), BoxTicks, 0, 0)
    /\ [][ScenarioNext]_vars
    /\ SchedulerFairness

\* the open intervals (lo1, lo1 + len1) and (lo2, lo2 + len2) have a point in common
OpenOverlap(lo1, len1, lo2, len2) == Max(lo1, lo2) < Min(lo1 + len1, lo2 + len2)

\* the interiors of the rectangles a and b have a point in common
StrictOverlap(a, b) ==
    /\ OpenOverlap(a.pos.x, a.size.x, b.pos.x, b.size.x)
    /\ OpenOverlap(a.pos.y, a.size.y, b.pos.y, b.size.y)

\* a and b have boundary points in common and no interior point
OnlyTouch(a, b) ==
    /\ ~StrictOverlap(a, b)
    /\ Max(a.pos.x, b.pos.x) <= Min(a.pos.x + a.size.x, b.pos.x + b.size.x)
    /\ Max(a.pos.y, b.pos.y) <= Min(a.pos.y + a.size.y, b.pos.y + b.size.y)

PositiveSize(e) == e.size.x > 0 /\ e.size.y > 0

\* C30: for any two entities of positive size, checkCollision is true exactly
\* when the interiors of their rectangles overlap on both axes (rectangles
\* that only touch along an edge or at a corner do not collide), and it gives
\* the same answer with its arguments exchanged.
C30_AabbTest ==
    \A i, j \in 1..Len(entitiesRef) :
       (PositiveSize(entitiesRef[i]) /\ PositiveSize(entitiesRef[j])) =>
          /\ checkCollision(entitiesRef[i], entitiesRef[j])
                <=> StrictOverlap(entitiesRef[i], entitiesRef[j])
          /\ OnlyTouch(entitiesRef[i], entitiesRef[j])
                => ~checkCollision(entitiesRef[i], entitiesRef[j])
          /\ checkCollision(entitiesRef[i], entitiesRef[j])
                <=> checkCollision(entitiesRef[j], entitiesRef[i])

\* after a frame the world holds two entities that touch only at a corner,
\* two that touch along an edge and two that overlap
C30_Witness ==
    /\ lastFrame.ran
    /\ lastFrame.time = clock
    /\ \E i, j \in 1..Len(entitiesRef) :
          /\ OnlyTouch(entitiesRef[i], entitiesRef[j])
          /\ entitiesRef[i].pos.x + entitiesRef[i].size.x = entitiesRef[j].pos.x
          /\ entitiesRef[i].pos.y + entitiesRef[i].size.y = entitiesRef[j].pos.y
    /\ \E i, j \in 1..Len(entitiesRef) :
          /\ OnlyTouch(entitiesRef[i], entitiesRef[j])
          /\ entitiesRef[i].pos.y + entitiesRef[i].size.y = entitiesRef[j].pos.y
          /\ OpenOverlap(entitiesRef[i].pos.x, entitiesRef[i].size.x,
                         entitiesRef[j].pos.x, entitiesRef[j].size.x)
    /\ \E i, j \in 1..Len(entitiesRef) :
          i # j /\ checkCollision(entitiesRef[i], entitiesRef[j])

----------------------------------------------------------------------------
(* Editor: moving an entity *)

\* entities.find(e => e.id === id), as an index (0: none)
RECURSIVE FindId(_, _, _)
FindId(es, id, k) ==
    IF k > Len(es) THEN 0
    ELSE IF es[k].id = id THEN k
    ELSE FindId(es, id, k + 1)

\* es.map(e => e.id === id ? { ...e, pos: newPos } : e)
MoveAll(es, id, newPos) ==
    [k \in 1..Len(es) |-> IF es[k].id = id THEN [es[k] EXCEPT !.pos = newPos] ELSE es[k]]

\* es.map(e => e.id === id ? { ...e, patrolStart, patrolEnd } : e), the two
\* vectors being those of handleEntityMove's second update
ShiftAll(es, id, patrolStart, patrolEnd) ==
    [k \in 1..Len(es) |->
        IF es[k].id = id
          THEN [es[k] EXCEPT !.patrolStart = Some(patrolStart), !.patrolEnd = Some(patrolEnd)]
          ELSE es[k]]

\* setEditorLevel(prev => ({ ...prev, entities: newEntities })): the updater
\* keeps prev except for its entity list, which becomes the list the caller
\* computed from the editorLevel of its render
SetEntities(prev, newEntities) == [prev EXCEPT !.entities = newEntities]

\* handleEntityMove, called by the viewport's mouse move while an entity is
\* dragged in editor build mode (spot: the snapped position, px).  Both
\* handleUpdateEntity calls run in the handler of one render: editorLevel
\* and entities are that render's values, the two setEditorLevel updaters
\* are applied in order, entitiesRef.current is written at once.
EntityMove(i, spot) ==
    /\ gameState = "EDITOR"
    /\ ~isEditorTesting
    /\ budget.edits > 0
    /\ i \in 1..Len(entitiesRef)
    /\ LET id == entitiesRef[i].id
           newPos == Vec(spot.x * PX, spot.y * PX)
           ghost == id = <<"ghost_player">>
           \* first update: { pos: newPos }
           ed1 == IF ghost THEN [editorLevel EXCEPT !.startPos = newPos]
                  ELSE SetEntities(editorLevel, MoveAll(editorLevel.entities, id, newPos))
           ref1 == MoveAll(entitiesRef, id, newPos)
           \* const ent = entities.find(e => e.id === id)
           ent == entitiesRef[FindId(entitiesRef, id, 1)]
           patrol == ent.behavior = "PATROL" /\ ent.patrolStart # None
           diffX == newPos.x - ent.pos.x
           diffY == newPos.y - ent.pos.y
           start == Vec(ent.patrolStart[1].x + diffX, ent.patrolStart[1].y + diffY)
           end == IF ent.patrolEnd # None
                    THEN Vec(ent.patrolEnd[1].x + diffX, ent.patrolEnd[1].y + diffY)
                    ELSE Vec(diffX, diffY)
           \* second update: { patrolStart, patrolEnd }
           ed2 == IF patrol
                    THEN SetEntities(ed1, ShiftAll(editorLevel.entities, id, start, end))
                    ELSE ed1
           ref2 == IF patrol THEN ShiftAll(ref1, id, start, end) ELSE ref1
       IN  Commit([Here EXCEPT !.ed = ed2, !.edSet = TRUE, !.ents = ref2])
    /\ Spend("edits")
    /\ UNCHANGED <<keysRef, lastTimeRef, clock, lastFrame, shots>>

\* palette items dropped and positions an entity is dragged to (px, on the
\* 10 px grid) in the move scenario
MoveTypes == {"ENEMY", "WALL"}

MoveSpots == {Vec(60, 400), Vec(200, 300)}

MoveEdits == 4

\* the move scenario: the editor opened on the empty custom level, palette
\* drops and drags of any entity shown
MoveNext ==
    \/ OpenEditor
    \/ \E t \in MoveTypes, spot \in DropSpots : EditorDrop(t, spot)
    \/ \E i \in 1..Len(entitiesRef), spot \in MoveSpots : EntityMove(i, spot)

MoveSpec ==
    /\ InputInit(Level1, 0, 0, MoveEdits)
    /\ [][MoveNext]_vars
    /\ SchedulerFairness

\* C31: in editor build mode, after handleEntityMove(id, newPos) on a PATROL
\* entity with a patrol start, the blueprint's entity stands at newPos and
\* its patrolStart and patrolEnd are those before the move shifted by
\* newPos - oldPos: neither of the handler's two updates is lost.
C31_MoveInSync ==
    [][\A i \in 1..Len(entitiesRef), spot \in MoveSpots :
          (/\ EntityMove(i, spot)
           /\ entitiesRef[i].behavior = "PATROL"
           /\ entitiesRef[i].patrolStart # None
           /\ entitiesRef[i].patrolEnd # None)
          => \A old \in {editorLevel.entities[i]} : \A new \in {editorLevel'.entities[i]} :
                /\ new.pos = Vec(spot.x * PX, spot.y * PX)
                /\ new.patrolStart[1].x - old.patrolStart[1].x = new.pos.x - old.pos.x
                /\ new.patrolStart[1].y - old.patrolStart[1].y = new.pos.y - old.pos.y
                /\ new.patrolEnd[1].x - old.patrolEnd[1].x = new.pos.x - old.pos.x
                /\ new.patrolEnd[1].y - old.patrolEnd[1].y = new.pos.y - old.pos.y]_vars

----------------------------------------------------------------------------
(* The frame loop's registration *)

\* C32: in every reachable state at most one frame callback is pending with
\* the scheduler, and it is the one requestRef.current names; while the game
\* is in PLAYING or EDITOR and no level-complete timeout is in flight,
\* exactly one is pending.
C32_SingleFrameLoop ==
    /\ pendingFrames <= 1
    /\ requestRef <=> pendingFrames = 1
    /\ (gameState \in {"PLAYING", "EDITOR"} /\ timers = <<>>) => pendingFrames = 1

\* the loop runs again on the level that followed a completed one (the clock
\* shows the level-complete delay between two regular frames), after the pause
\* button was used: the callback was dropped by the completing frame and
\* registered again by the effects and by the frame itself
C32_Witness ==
    /\ gameState = "PLAYING"
    /\ currentLevelId > 1
    /\ timers = <<>>
    /\ budget.pause < MaxPause
    /\ lastFrame.ran
    /\ lastFrame.outcome = "commit"
    /\ lastFrame.time = clock
    /\ clock = 20 + COMPLETE_DELAY + 20
    /\ pendingFrames = 1

----------------------------------------------------------------------------
(* The current level id *)

\* C33: in every reachable state the current level id is the id of a level
\* of the repository, so that LEVELS.find never falls back to the first
\* level for an unknown id.
C33_LevelIdInRange ==
    \E k \in 1..Len(LEVELS) : LEVELS[k].id = currentLevelId

----------------------------------------------------------------------------
(* Horizontal containment *)

\* the containment scenario: on the floor the Player near the left edge, a
\* guard whose path is blocked by a solid crate, and a fast runner whose path
\* ends beyond the right edge
ContainLevel ==
    [id |-> 1, startPos |-> Vec(20 * PX, 418 * PX),
     entities |-> <<Floor, PatrolEnemy("guard", 200, 420),
                    Template("crate", "PLATFORM", 232, 420, 30, 30),
                    [PatrolEnemy("runner", 740, 420) EXCEPT !.patrolSpeed = 1000]>>,
     physics |-> DEFAULT_PHYSICS]

ContainTicks == 5

ContainInputs == 1

ContainNext ==
    \/ ScenarioNext
    \/ \E x \in ClickXs : SceneClick(x)

ContainSpec ==
    /\ InputInit(ContainLevel, ContainTicks, ContainInputs, 0)
    /\ [][ContainNext]_vars
    /\ SchedulerFairness

\* 0 <= x <= canvasWidth - size.x
InBounds(e) == 0 <= e.pos.x /\ e.pos.x <= CANVAS_WIDTH * PX - e.size.x

\* C34: a frame that commits leaves every non-static entity that stood with
\* 0 <= x <= canvasWidth - size.x when the frame began, and that it keeps,
\* with 0 <= x <= canvasWidth - size.x, whether its X step ended at a world
\* boundary, at the pre-move x in front of a solid, or at the tentative x;
\* so the bounds hold in every committed state of an entity that starts
\* within them.
C34_HorizontalContainment ==
    [][(TickStep /\ lastFrame'.ran /\ lastFrame'.outcome = "commit") =>
         \A st \in {ThisFrame} : \A i \in KeptOf(st.cur) :
            (~entitiesRef[i].isStatic /\ InBounds(entitiesRef[i])) =>
               \A q \in {Cardinality({j \in KeptOf(st.cur) : j <= i})} :
                  /\ entitiesRef'[q].id = entitiesRef[i].id
                  /\ InBounds(entitiesRef'[q])]_vars

\* a committed frame left the Player stopped at the left edge on its way to
\* a click target there, the runner stopped at the right edge, and the guard
\* at its pre-move x, turned back by the crate
C34_Witness ==
    /\ lastFrame.ran
    /\ lastFrame.outcome = "commit"
    /\ lastFrame.time = clock
    /\ targetXRef = Some(0)
    /\ \E p, g, r \in 1..Len(entitiesRef) :
          /\ entitiesRef[p].type = "PLAYER"
          /\ entitiesRef[p].pos.x = 0
          /\ entitiesRef[p].velocity.x = 0
          /\ entitiesRef[g].id = <<"guard">>
          /\ entitiesRef[g].pos.x = 200 * PX
          /\ entitiesRef[g].velocity.x < 0
          /\ entitiesRef[r].id = <<"runner">>
          /\ entitiesRef[r].pos.x = CANVAS_WIDTH * PX - entitiesRef[r].size.x
          /\ entitiesRef[r].velocity.x = 0

====
